---- MODULE Spec2Model ----
(***************************************************************************)
(* A state-machine model of the SecureBank demo application               *)
(* (src/bankbot.py, src/security.py, src/config.py).                       *)
(*                                                                         *)
(* Conventions                                                             *)
(*  - Time is an integer number of seconds; timedelta(minutes=m) is m*60.  *)
(*  - A Python string that the code inspects character by character (the  *)
(*    login form fields, the transfer recipient) is a sequence of          *)
(*    one-character strings.                                               *)
(*  - An optional value (None or a value) is the empty sequence <<>> or    *)
(*    the one-element sequence <<v>>.                                      *)
(*  - Money is an integer number of paise (hundredths of a rupee).         *)
(***************************************************************************)
EXTENDS Integers, Sequences, FiniteSets, TLC

VARIABLES
    now,              \* datetime.now(), in seconds
    attempts,         \* rate_limiter.attempts: identifier -> list of timestamps
    db,               \* st.session_state.db: identifier -> user record
    disk,             \* the content of DB_FILE (<<>> while the file is absent)
    authenticated,    \* st.session_state.authenticated
    user_id,          \* st.session_state.user_id (optional)
    session_data,     \* st.session_state.session_data (optional)
    chat_history,     \* st.session_state.chat_history
    all_chats,        \* st.session_state.all_chats
    current_chat_id,  \* st.session_state.current_chat_id (optional)
    last,             \* what the last request was and what it showed the user
    call              \* a direct call of one function: its arguments and result

vars == <<now, attempts, db, disk, authenticated, user_id, session_data,
          chat_history, all_chats, current_chat_id, last, call>>

appVars == <<attempts, db, disk, authenticated, user_id, session_data,
             chat_history, all_chats, current_chat_id>>

----------------------------------------------------------------------------
\* timedelta(minutes=m)
Minutes(m) == m * 60

(* Bounds of the model *)

\* the clock stops after this many clock steps
MaxTicks == 4
\* at most this many accepted transfers per user
MaxTransfers == 2
\* at most this many messages in one conversation
MaxChatLen == 2
\* at most this many saved conversations
MaxChats == 1

\* the clock advances in steps of 5, 10 or 15 minutes
TickSteps == {Minutes(5), Minutes(10), Minutes(15)}
\* the latest time the clock reaches
MaxClock == MaxTicks * Minutes(5)

----------------------------------------------------------------------------
(* Configuration: src/config.py *)

SESSION_TIMEOUT_MINUTES == 15
MAX_LOGIN_ATTEMPTS == 5
LOCKOUT_MINUTES == 15

None == <<>>
Some(v) == <<v>>

\* a text shown to the user: the template, and the number and the values put
\* into it
Message(text, num, args) == [text |-> text, num |-> num, args |-> args]
Msg(text) == Message(text, 0, <<>>)
MsgN(text, num) == Message(text, num, <<>>)

----------------------------------------------------------------------------
(* Strings as sequences of characters *)

Digits == {"0", "1", "2", "3", "4", "5", "6", "7", "8", "9"}

RECURSIVE LStrip(_)
LStrip(s) == IF s # <<>> /\ Head(s) = " " THEN LStrip(Tail(s)) ELSE s

RECURSIVE RStrip(_)
RStrip(s) ==
    IF s # <<>> /\ s[Len(s)] = " " THEN RStrip(SubSeq(s, 1, Len(s) - 1)) ELSE s

\* str.strip()
Strip(s) == RStrip(LStrip(s))

\* str.isdigit(): non-empty and every character a digit
IsDigit(s) == s # <<>> /\ \A i \in 1..Len(s) : s[i] \in Digits

----------------------------------------------------------------------------
(* InputValidator: src/security.py *)

NoError == "None"

validate_account_number(account) ==
    IF account = <<>> THEN "Account number is required"
    ELSE IF ~IsDigit(Strip(account))
         THEN "Account number must contain only digits"
    ELSE IF Len(Strip(account)) # 10
         THEN "Account number must be exactly 10 digits"
    ELSE NoError

validate_pin(pin) ==
    IF pin = <<>> THEN "PIN is required"
    ELSE IF ~IsDigit(Strip(pin)) THEN "PIN must contain only digits"
    ELSE IF Len(Strip(pin)) # 4 THEN "PIN must be exactly 4 digits"
    ELSE NoError

----------------------------------------------------------------------------
(* PasswordHasher: src/security.py *)

\* bcrypt.gensalt draws the salt at random
Salts == {"saltA", "saltB"}

\* a bcrypt digest: the "$2b$" prefix, the salt, and the hashed secret
hash_password(password, salt) ==
    [prefix |-> "$2b$", salt |-> salt, secret |-> password]

\* hashed is optional here: user_data.get('hashed_pin', '') yields '' for a
\* record without a digest, on which bcrypt.checkpw raises and False is returned
verify_password(password, hashed) ==
    IF hashed = None THEN FALSE
    ELSE hashed[1].prefix = "$2b$" /\ hashed[1].secret = password

----------------------------------------------------------------------------
(* SessionManager: src/security.py *)

\* secrets.token_urlsafe draws the token at random
Tokens == {"tokenA", "tokenB"}

create_session(uid, token, t) ==
    [user_id |-> uid, token |-> token,
     created_at |-> t, last_activity |-> Some(t)]

\* is_session_valid with "elapsed <= timeout"
is_session_valid_inclusive(session, t, timeout_minutes) ==
    IF session = None THEN FALSE
    ELSE IF session[1].last_activity = None THEN FALSE
    ELSE t - session[1].last_activity[1] <= Minutes(timeout_minutes)

\* is_session_valid without the comparison with the timeout
is_session_valid_no_expiry(session, t, timeout_minutes) ==
    IF session = None THEN FALSE
    ELSE session[1].last_activity # None

\* session is optional; its last_activity is optional
is_session_valid(session, t, timeout_minutes) ==
    IF session = None THEN FALSE
    ELSE IF session[1].last_activity = None THEN FALSE
    ELSE t - session[1].last_activity[1] < Minutes(timeout_minutes)

\* update_activity that returns the session as it is
update_activity_keeps(session, t) == session

update_activity(session, t) ==
    IF session # None
    THEN Some([session[1] EXCEPT !.last_activity = Some(t)])
    ELSE session

----------------------------------------------------------------------------
(* RateLimiter: src/security.py.  attempts is a defaultdict(list): an     *)
(* identifier that is not a key reads as the empty list.                   *)

\* [t for t in ts if t >= cutoff]
Prune_keeps_boundary(ts, cutoff) == SelectSeq(ts, LAMBDA t : t >= cutoff)

\* [t for t in ts if t > cutoff]
Prune(ts, cutoff) == SelectSeq(ts, LAMBDA t : t > cutoff)

record_attempt(att, identifier, t, lockout_minutes) ==
    [att EXCEPT ![identifier] =
        Prune(Append(@, t), t - Minutes(lockout_minutes))]

\* timedelta.seconds: the seconds field of the normalised timedelta
TimedeltaSeconds(d) == d % 86400

Max(a, b) == IF a >= b THEN a ELSE b

\* the attempts after pruning, the verdict and the message
is_locked_out(att, identifier, t, max_attempts, lockout_minutes) ==
    LET pruned == Prune(att[identifier], t - Minutes(lockout_minutes))
        att2 == [att EXCEPT ![identifier] = pruned]
    IN  IF Len(pruned) >= max_attempts
        THEN IF pruned # <<>>
             THEN LET unlock_time == pruned[1] + Minutes(lockout_minutes)
                      remaining == unlock_time - t
                      minutes_left == Max(0, TimedeltaSeconds(remaining) \div 60)
                  IN  [attempts |-> att2, locked |-> TRUE,
                       message |->
                           MsgN("Too many failed attempts. Try again in {} minutes.",
                                minutes_left)]
             ELSE [attempts |-> att2, locked |-> TRUE,
                   message |-> Msg("Account temporarily locked.")]
        ELSE [attempts |-> att2, locked |-> FALSE, message |-> Msg("")]

reset_attempts(att, identifier) == [att EXCEPT ![identifier] = <<>>]

----------------------------------------------------------------------------
(* The credential store: load_data's default records, src/bankbot.py *)

Chars(a, b, c, d, e, f, g, h, i, j) == <<a, b, c, d, e, f, g, h, i, j>>

\* "1234567890" and "0987654321", the two stored accounts
U1 == Chars("1", "2", "3", "4", "5", "6", "7", "8", "9", "0")
U2 == Chars("0", "9", "8", "7", "6", "5", "4", "3", "2", "1")
\* a well-formed account number that is not in the store
UX == Chars("5", "5", "5", "5", "5", "5", "5", "5", "5", "5")

Pin0000 == <<"0", "0", "0", "0">>
Pin1111 == <<"1", "1", "1", "1">>

Txn(date, desc, cat, amt, type) ==
    [date |-> date, desc |-> desc, cat |-> cat, amt |-> amt, type |-> type]

\* transaction dates are day numbers; day 0 is the day the model starts
Today(t) == t \div 86400

DefaultData(salt1, salt2) ==
    (U1 :> [name |-> "customer1",
            hashed_pin |-> Some(hash_password(Pin0000, salt1)),
            balance |-> 4575050,
            type |-> "Premium Savings",
            credit_score |-> 785,
            failed_login_attempts |-> 0,
            last_login |-> None,
            account_locked_until |-> None,
            history |-> <<4200000, 4350000, 4500000, 4480000, 4420000, 4575000>>,
            chats |-> <<>>,
            transactions |-> <<
                Txn(-1, <<"Salary Credit">>, "Income", 500000, "Credit"),
                Txn(-3, <<"Amazon Purchase">>, "Shopping", -125000, "Debit"),
                Txn(-5, <<"Rent Payment">>, "Bills", -350000, "Debit"),
                Txn(-8, <<"Freelance Payment">>, "Income", 200000, "Credit"),
                Txn(-11, <<"Grocery Shopping">>, "Food", -85000, "Debit")>>])
    @@
    (U2 :> [name |-> "Customer2",
            hashed_pin |-> Some(hash_password(Pin1111, salt2)),
            balance |-> 12830075,
            type |-> "Business Current",
            credit_score |-> 820,
            failed_login_attempts |-> 0,
            last_login |-> None,
            account_locked_until |-> None,
            history |-> <<11000000, 11500000, 12000000, 12500000, 12700000,
                          12830000>>,
            chats |-> <<>>,
            transactions |-> <<
                Txn(-2, <<"Client Payment">>, "Business", 2500000, "Credit"),
                Txn(-4, <<"Office Supplies">>, "Business", -850000, "Debit"),
                Txn(-7, <<"Project Payment">>, "Business", 4000000, "Credit")>>])

\* json.dump(st.session_state.db, f): the file holds a copy of the store
save_data(store) == Some(store)

----------------------------------------------------------------------------
(* Inputs of the login form (text_input max_chars: 10 and 4) *)

BadUidInputs ==
    {<<>>,
     <<"1", "2", "3">>,
     Chars("1", "2", "3", "4", "5", "6", "7", "8", "9", "a"),
     Chars(" ", "1", "2", "3", "4", "5", "6", "7", "8", "9")}

BadPinInputs == {<<>>, <<"1", "2">>, <<"a", "b", "c", "d">>}

UidInputs == {U1} \cup BadUidInputs

PinInputs == {Pin0000, Pin1111} \cup BadPinInputs

\* the identifiers the rate limiter can come to hold
Identifiers == {U1, U2, UX}

Shown(kind, msg, verified) ==
    [kind |-> kind, msg |-> msg, verified |-> verified]

NoCall == [fn |-> "none"]

----------------------------------------------------------------------------
(* State initialisation: src/bankbot.py, "STATE MANAGEMENT" *)

Init ==
    /\ now = 0
    /\ attempts = [i \in Identifiers |-> <<>>]
    /\ db = DefaultData("saltA", "saltB")
    /\ disk = None
    /\ authenticated = FALSE
    /\ user_id = None
    /\ session_data = None
    /\ chat_history = <<>>
    /\ all_chats = <<>>
    /\ current_chat_id = None
    /\ last = Shown("start", Msg(""), FALSE)
    /\ call = NoCall

\* time passes between two requests
Tick(d) ==
    /\ now + d <= MaxClock
    /\ now' = now + d
    /\ last' = Shown("idle", Msg(""), FALSE)
    /\ call' = NoCall
    /\ UNCHANGED appVars

----------------------------------------------------------------------------
(* login_screen: src/bankbot.py *)

\* what one submission of the login form does: what it shows, the rate
\* limiter and the store afterwards, whether the store was saved, and whether
\* the visitor is logged in
LoginResult(shown, att, store, saved, ok) ==
    [shown |-> shown, attempts |-> att, db |-> store, saved |-> saved,
     ok |-> ok]

\* a field failed format validation: st.error and nothing else
login_invalid(att, store, message) ==
    LoginResult(Shown("login_invalid", Msg(message), FALSE),
                att, store, FALSE, FALSE)

\* the rate limiter reports the identifier locked
login_locked(lk, store) ==
    LoginResult(Shown("login_locked", lk.message, FALSE),
                lk.attempts, store, FALSE, FALSE)

\* login_success without rate_limiter.reset_attempts
login_success_keeps_attempts(lk, store, uid, t) ==
    LoginResult(Shown("login_success", Msg("Authentication Successful!"), TRUE),
                lk.attempts,
                [store EXCEPT ![uid].last_login = Some(t),
                              ![uid].failed_login_attempts = 0],
                TRUE, TRUE)

\* the PIN matches the stored digest
login_success(lk, store, uid, t) ==
    LoginResult(Shown("login_success", Msg("Authentication Successful!"), TRUE),
                reset_attempts(lk.attempts, uid),
                [store EXCEPT ![uid].last_login = Some(t),
                              ![uid].failed_login_attempts = 0],
                TRUE, TRUE)

\* login_failure with attempts_left computed before the attempt is recorded
login_failure_counts_before(lk, store, uid, t) ==
    LET att2 == record_attempt(lk.attempts, uid, t, LOCKOUT_MINUTES)
        attempts_made == Len(lk.attempts[uid])
        attempts_left == MAX_LOGIN_ATTEMPTS - attempts_made
        known == uid \in DOMAIN store
    IN  LoginResult(
            Shown("login_failure",
                  IF attempts_left > 0
                  THEN MsgN("Invalid credentials. {} attempts remaining.",
                            attempts_left)
                  ELSE Msg("Invalid credentials. Account will be locked."),
                  known),
            att2,
            IF known
            THEN [store EXCEPT ![uid].failed_login_attempts = @ + 1]
            ELSE store,
            known, FALSE)

\* login_failure with a message of its own for an identifier not in the store
login_failure_names_unknown(lk, store, uid, t) ==
    LET att2 == record_attempt(lk.attempts, uid, t, LOCKOUT_MINUTES)
        attempts_made == Len(att2[uid])
        attempts_left == MAX_LOGIN_ATTEMPTS - attempts_made
        known == uid \in DOMAIN store
    IN  LoginResult(
            Shown("login_failure",
                  IF ~known THEN Msg("Account not found.")
                  ELSE IF attempts_left > 0
                  THEN MsgN("Invalid credentials. {} attempts remaining.",
                            attempts_left)
                  ELSE Msg("Invalid credentials. Account will be locked."),
                  known),
            att2,
            IF known
            THEN [store EXCEPT ![uid].failed_login_attempts = @ + 1]
            ELSE store,
            known, FALSE)

\* unknown identifier or wrong PIN
login_failure(lk, store, uid, t) ==
    LET att2 == record_attempt(lk.attempts, uid, t, LOCKOUT_MINUTES)
        attempts_made == Len(att2[uid])
        attempts_left == MAX_LOGIN_ATTEMPTS - attempts_made
        known == uid \in DOMAIN store
    IN  LoginResult(
            Shown("login_failure",
                  IF attempts_left > 0
                  THEN MsgN("Invalid credentials. {} attempts remaining.",
                            attempts_left)
                  ELSE Msg("Invalid credentials. Account will be locked."),
                  known),
            att2,
            IF known
            THEN [store EXCEPT ![uid].failed_login_attempts = @ + 1]
            ELSE store,
            known, FALSE)

\* the body of "if submit:" with a malformed PIN counted as a failed attempt
login_submit_counts_invalid(att, store, uid, pin, t) ==
    LET account_error == validate_account_number(uid)
        pin_error == validate_pin(pin)
    IN  IF account_error # NoError THEN login_invalid(att, store, account_error)
        ELSE IF pin_error # NoError
        THEN login_invalid(record_attempt(att, uid, t, LOCKOUT_MINUTES),
                           store, pin_error)
        ELSE LET lk == is_locked_out(att, uid, t, MAX_LOGIN_ATTEMPTS,
                                     LOCKOUT_MINUTES)
             IN  IF lk.locked THEN login_locked(lk, store)
                 ELSE IF /\ uid \in DOMAIN store
                         /\ verify_password(pin, store[uid].hashed_pin)
                      THEN login_success(lk, store, uid, t)
                      ELSE login_failure(lk, store, uid, t)

\* the body of "if submit:" with the credentials verified before the rate
\* limiter is asked
login_submit_verify_first(att, store, uid, pin, t) ==
    LET account_error == validate_account_number(uid)
        pin_error == validate_pin(pin)
    IN  IF account_error # NoError THEN login_invalid(att, store, account_error)
        ELSE IF pin_error # NoError THEN login_invalid(att, store, pin_error)
        ELSE LET lk == is_locked_out(att, uid, t, MAX_LOGIN_ATTEMPTS,
                                     LOCKOUT_MINUTES)
             IN  IF /\ uid \in DOMAIN store
                    /\ verify_password(pin, store[uid].hashed_pin)
                 THEN login_success(lk, store, uid, t)
                 ELSE IF lk.locked THEN login_locked(lk, store)
                 ELSE login_failure(lk, store, uid, t)

\* the body of "if submit:" with a submission made during a lockout recorded
\* as one more attempt
login_submit_records_locked(att, store, uid, pin, t) ==
    LET account_error == validate_account_number(uid)
        pin_error == validate_pin(pin)
    IN  IF account_error # NoError THEN login_invalid(att, store, account_error)
        ELSE IF pin_error # NoError THEN login_invalid(att, store, pin_error)
        ELSE LET lk == is_locked_out(att, uid, t, MAX_LOGIN_ATTEMPTS,
                                     LOCKOUT_MINUTES)
             IN  IF lk.locked
                 THEN login_locked(
                          [lk EXCEPT !.attempts =
                              record_attempt(@, uid, t, LOCKOUT_MINUTES)],
                          store)
                 ELSE IF /\ uid \in DOMAIN store
                         /\ verify_password(pin, store[uid].hashed_pin)
                      THEN login_success(lk, store, uid, t)
                      ELSE login_failure(lk, store, uid, t)

\* the body of "if submit:"
login_submit(att, store, uid, pin, t) ==
    LET account_error == validate_account_number(uid)
        pin_error == validate_pin(pin)
    IN  IF account_error # NoError THEN login_invalid(att, store, account_error)
        ELSE IF pin_error # NoError THEN login_invalid(att, store, pin_error)
        ELSE LET lk == is_locked_out(att, uid, t, MAX_LOGIN_ATTEMPTS,
                                     LOCKOUT_MINUTES)
             IN  IF lk.locked THEN login_locked(lk, store)
                 ELSE IF /\ uid \in DOMAIN store
                         /\ verify_password(pin, store[uid].hashed_pin)
                      THEN login_success(lk, store, uid, t)
                      ELSE login_failure(lk, store, uid, t)

\* the form was submitted with uid and pin
login_screen(uid, pin) ==
    /\ ~authenticated
    /\ LET r == login_submit(attempts, db, uid, pin, now)
       IN  /\ attempts' = r.attempts
           /\ db' = r.db
           /\ disk' = IF r.saved THEN save_data(r.db) ELSE disk
           /\ last' = r.shown
           /\ IF r.ok
              THEN /\ \E token \in Tokens :
                        session_data' = Some(create_session(uid, token, now))
                   /\ authenticated' = TRUE
                   /\ user_id' = Some(uid)
                   /\ all_chats' = r.db[uid].chats
                   /\ chat_history' = <<>>
                   /\ current_chat_id' = None
              ELSE UNCHANGED <<authenticated, user_id, session_data,
                               chat_history, all_chats, current_chat_id>>
    /\ UNCHANGED <<now, call>>

----------------------------------------------------------------------------
(* process_transfer: src/bankbot.py, and the validators it calls *)

\* validate_amount with the ceiling itself refused
validate_amount_exclusive(amount, max_amount, min_amount) ==
    IF amount < min_amount
    THEN Some(MsgN("Amount must be at least Rs. {}", min_amount))
    ELSE IF amount >= max_amount
    THEN Some(MsgN("Amount cannot exceed Rs. {}", max_amount))
    ELSE None

\* validate_amount without the ceiling
validate_amount_no_ceiling(amount, max_amount, min_amount) ==
    IF amount < min_amount
    THEN Some(MsgN("Amount must be at least Rs. {}", min_amount))
    ELSE None

\* validate_amount; the amounts are in paise
validate_amount(amount, max_amount, min_amount) ==
    IF amount < min_amount
    THEN Some(MsgN("Amount must be at least Rs. {}", min_amount))
    ELSE IF amount > max_amount
    THEN Some(MsgN("Amount cannot exceed Rs. {}", max_amount))
    ELSE None

\* the characters re.sub(r'[<>"\']', '', text) removes
MarkupChars == {"<", ">", "\"", "'"}

sanitize_text(text) ==
    IF text = <<>> THEN <<>>
    ELSE Strip(SelectSeq(text, LAMBDA c : c \notin MarkupChars))

\* the ceiling process_transfer passes, and validate_amount's default floor
TRANSFER_MAX_AMOUNT == 5000000
TRANSFER_MIN_AMOUNT == 100

\* process_transfer with the amount of the new transaction not negated
process_transfer_records_credit(store, uid, recipient, amount, t) ==
    LET amount_error ==
            validate_amount(amount, TRANSFER_MAX_AMOUNT, TRANSFER_MIN_AMOUNT)
        clean == sanitize_text(recipient)
        user == store[uid]
        balance2 == user.balance - amount
        new_txn == Txn(Today(t), <<"Transfer to ">> \o clean, "Transfer",
                       amount, "Debit")
    IN  IF amount_error # None
        THEN [success |-> FALSE, message |-> amount_error[1],
              db |-> store, saved |-> FALSE]
        ELSE IF clean = <<>>
        THEN [success |-> FALSE, message |-> Msg("Recipient name is required"),
              db |-> store, saved |-> FALSE]
        ELSE IF amount > user.balance
        THEN [success |-> FALSE, message |-> Msg("Insufficient funds."),
              db |-> store, saved |-> FALSE]
        ELSE [success |-> TRUE,
              message |-> Message("Transfer successful! Rs. {} sent to {}",
                                  amount, clean),
              db |-> [store EXCEPT
                         ![uid].balance = balance2,
                         ![uid].transactions = <<new_txn>> \o @,
                         ![uid].history = Append(@, balance2)],
              saved |-> TRUE]

\* process_transfer without the comparison of the amount with the balance
process_transfer_overdraws(store, uid, recipient, amount, t) ==
    LET amount_error ==
            validate_amount(amount, TRANSFER_MAX_AMOUNT, TRANSFER_MIN_AMOUNT)
        clean == sanitize_text(recipient)
        user == store[uid]
        balance2 == user.balance - amount
        new_txn == Txn(Today(t), <<"Transfer to ">> \o clean, "Transfer",
                       -amount, "Debit")
    IN  IF amount_error # None
        THEN [success |-> FALSE, message |-> amount_error[1],
              db |-> store, saved |-> FALSE]
        ELSE IF clean = <<>>
        THEN [success |-> FALSE, message |-> Msg("Recipient name is required"),
              db |-> store, saved |-> FALSE]
        ELSE [success |-> TRUE,
              message |-> Message("Transfer successful! Rs. {} sent to {}",
                                  amount, clean),
              db |-> [store EXCEPT
                         ![uid].balance = balance2,
                         ![uid].transactions = <<new_txn>> \o @,
                         ![uid].history = Append(@, balance2)],
              saved |-> TRUE]

\* process_transfer with the new transaction put after the earlier ones
process_transfer_appends(store, uid, recipient, amount, t) ==
    LET amount_error ==
            validate_amount(amount, TRANSFER_MAX_AMOUNT, TRANSFER_MIN_AMOUNT)
        clean == sanitize_text(recipient)
        user == store[uid]
        balance2 == user.balance - amount
        new_txn == Txn(Today(t), <<"Transfer to ">> \o clean, "Transfer",
                       -amount, "Debit")
    IN  IF amount_error # None
        THEN [success |-> FALSE, message |-> amount_error[1],
              db |-> store, saved |-> FALSE]
        ELSE IF clean = <<>>
        THEN [success |-> FALSE, message |-> Msg("Recipient name is required"),
              db |-> store, saved |-> FALSE]
        ELSE IF amount > user.balance
        THEN [success |-> FALSE, message |-> Msg("Insufficient funds."),
              db |-> store, saved |-> FALSE]
        ELSE [success |-> TRUE,
              message |-> Message("Transfer successful! Rs. {} sent to {}",
                                  amount, clean),
              db |-> [store EXCEPT
                         ![uid].balance = balance2,
                         ![uid].transactions = Append(@, new_txn),
                         ![uid].history = Append(@, balance2)],
              saved |-> TRUE]

\* the result, the message, the store afterwards and whether it was saved
process_transfer(store, uid, recipient, amount, t) ==
    LET amount_error ==
            validate_amount(amount, TRANSFER_MAX_AMOUNT, TRANSFER_MIN_AMOUNT)
        clean == sanitize_text(recipient)
        user == store[uid]
        balance2 == user.balance - amount
        new_txn == Txn(Today(t), <<"Transfer to ">> \o clean, "Transfer",
                       -amount, "Debit")
    IN  IF amount_error # None
        THEN [success |-> FALSE, message |-> amount_error[1],
              db |-> store, saved |-> FALSE]
        ELSE IF clean = <<>>
        THEN [success |-> FALSE, message |-> Msg("Recipient name is required"),
              db |-> store, saved |-> FALSE]
        ELSE IF amount > user.balance
        THEN [success |-> FALSE, message |-> Msg("Insufficient funds."),
              db |-> store, saved |-> FALSE]
        ELSE [success |-> TRUE,
              message |-> Message("Transfer successful! Rs. {} sent to {}",
                                  amount, clean),
              db |-> [store EXCEPT
                         ![uid].balance = balance2,
                         ![uid].transactions = <<new_txn>> \o @,
                         ![uid].history = Append(@, balance2)],
              saved |-> TRUE]

----------------------------------------------------------------------------
(* Chat functions: src/bankbot.py *)

\* uuid.uuid4() draws the identifier of a conversation
ChatIds == 1..(MaxChats + 1)

ChatMessage(role, content, t) ==
    [role |-> role, content |-> content, timestamp |-> t]

\* add_chat_message
add_chat_message(history, role, content, t) ==
    Append(history, ChatMessage(role, content, t))

\* generate_fast_title: the first prompt (the prompts here are short)
generate_fast_title(first_prompt) == first_prompt

\* get_bot_response, the transaction handler: the first three transactions
bot_response_transactions(store, uid) ==
    LET all == IF uid # None /\ uid[1] \in DOMAIN store
               THEN store[uid[1]].transactions ELSE <<>>
        trans == SubSeq(all, 1, IF Len(all) < 3 THEN Len(all) ELSE 3)
    IN  Message("Here are your last {} transactions: {}", Len(trans), trans)

\* save_current_chat(): the conversation id, the chats, the store and the file
\* afterwards; new_id is the uuid drawn when the conversation is new
save_current_chat(history, chat_id, chats, store, file, uid, new_id, t) ==
    IF history = <<>>
    THEN [chat_id |-> chat_id, chats |-> chats, db |-> store, disk |-> file]
    ELSE LET id2 == IF chat_id = None THEN Some(new_id) ELSE chat_id
             chats2 ==
                 IF chat_id = None
                 THEN <<[id |-> new_id,
                         title |-> generate_fast_title(history[1].content),
                         messages |-> history, timestamp |-> t]>> \o chats
                 ELSE LET hits == {i \in 1..Len(chats) : chats[i].id = chat_id[1]}
                      IN  [i \in 1..Len(chats) |->
                             IF hits # {} /\ i = CHOOSE h \in hits :
                                                  \A g \in hits : h <= g
                             THEN [chats[i] EXCEPT !.messages = history,
                                                   !.timestamp = t]
                             ELSE chats[i]]
             store2 == IF uid # None
                       THEN [store EXCEPT ![uid[1]].chats = chats2]
                       ELSE store
         IN  [chat_id |-> id2, chats |-> chats2, db |-> store2,
              disk |-> IF uid # None THEN save_data(store2) ELSE file]

----------------------------------------------------------------------------
(* dashboard_screen: src/bankbot.py *)

\* the session is absent or expired: back to the login screen
dashboard_expired ==
    /\ authenticated' = FALSE
    /\ user_id' = None
    /\ session_data' = None
    /\ last' = Shown("expired",
                     Msg("Your session has expired. Please login again."), FALSE)
    /\ UNCHANGED <<now, attempts, db, disk, chat_history, all_chats,
                   current_chat_id, call>>

\* a request that presses nothing: the page is drawn
dashboard_view ==
    /\ session_data' = update_activity(session_data, now)
    /\ last' = Shown("dashboard", Msg(""), FALSE)
    /\ UNCHANGED <<now, attempts, db, disk, authenticated, user_id,
                   chat_history, all_chats, current_chat_id, call>>

\* the Logout button with the session left in place
dashboard_logout_keeps_session ==
    /\ authenticated' = FALSE
    /\ chat_history' = <<>>
    /\ all_chats' = <<>>
    /\ current_chat_id' = None
    /\ last' = Shown("logout", Msg("Logged out successfully!"), FALSE)
    /\ UNCHANGED <<now, attempts, db, disk, call, user_id, session_data>>

\* the Logout button
dashboard_logout ==
    /\ authenticated' = FALSE
    /\ user_id' = None
    /\ session_data' = None
    /\ chat_history' = <<>>
    /\ all_chats' = <<>>
    /\ current_chat_id' = None
    /\ last' = Shown("logout", Msg("Logged out successfully!"), FALSE)
    /\ UNCHANGED <<now, attempts, db, disk, call>>

\* the Transfer tab's form was submitted
dashboard_transfer(recipient, amount) ==
    IF recipient = <<>>
    THEN /\ session_data' = update_activity(session_data, now)
         /\ last' = Shown("transfer_rejected",
                          Msg("Please enter a recipient."), FALSE)
         /\ UNCHANGED <<now, attempts, db, disk, authenticated, user_id,
                        chat_history, all_chats, current_chat_id, call>>
    ELSE LET r == process_transfer(db, user_id[1], recipient, amount, now)
         IN  /\ session_data' = update_activity(session_data, now)
             /\ db' = r.db
             /\ disk' = IF r.saved THEN save_data(r.db) ELSE disk
             /\ last' = IF r.success
                        THEN Shown("transfer_ok",
                                   Message("Successfully sent Rs. {} to {}!",
                                           amount, recipient), FALSE)
                        ELSE Shown("transfer_rejected", r.message, FALSE)
             /\ UNCHANGED <<now, attempts, authenticated, user_id,
                            chat_history, all_chats, current_chat_id, call>>

\* the quick action "Transactions"
dashboard_quick_trans(new_id) ==
    LET h1 == add_chat_message(chat_history, "user",
                               Msg("Show my recent transactions"), now)
        h2 == add_chat_message(h1, "assistant",
                               bot_response_transactions(db, user_id), now)
        r == save_current_chat(h2, current_chat_id, all_chats, db, disk,
                               user_id, new_id, now)
    IN  /\ session_data' = update_activity(session_data, now)
        /\ chat_history' = h2
        /\ current_chat_id' = r.chat_id
        /\ all_chats' = r.chats
        /\ db' = r.db
        /\ disk' = r.disk
        /\ last' = Shown("chat", h2[Len(h2)].content, FALSE)
        /\ UNCHANGED <<now, attempts, authenticated, user_id, call>>

\* the inputs of the transfer form: number_input lets 1.00 to 100,000.00 through
RecipientInputs ==
    {<<>>, <<"A", "l", "e", "x">>, <<"<", "A", ">", " ">>, <<"<", ">">>}

AmountInputs == {100, 125000, 5000000, 5000001}

Request(widget, recipient, amount) ==
    [widget |-> widget, recipient |-> recipient, amount |-> amount]

\* the requests that press nothing, log out, or use the quick action
SessionRequests ==
    {Request("none", <<>>, 0), Request("logout", <<>>, 0),
     Request("quick_trans", <<>>, 0)}

\* the requests that press nothing, log out, or submit the transfer form
TransferRequests ==
    {Request("none", <<>>, 0), Request("logout", <<>>, 0)}
    \cup {Request("transfer", r, a) : r \in RecipientInputs, a \in AmountInputs}

\* the saved conversations and the accepted transfers stay within the bounds
WithinBounds(req) ==
    /\ req.widget = "quick_trans" =>
          /\ Len(chat_history) + 2 <= MaxChatLen
          /\ current_chat_id = None => Len(all_chats) < MaxChats
    /\ req.widget = "transfer" =>
          \A u \in DOMAIN db :
              Len(db[u].transactions) < Len(DefaultData("", "")[u].transactions)
                                        + MaxTransfers

\* uuid.uuid4(): a fresh identifier.  Identifiers are only compared for
\* equality, so the first one not in use stands for any fresh one.
FreshChatId ==
    CHOOSE c \in ChatIds :
        /\ \A i \in 1..Len(all_chats) : all_chats[i].id # c
        /\ \A d \in ChatIds :
              (\A i \in 1..Len(all_chats) : all_chats[i].id # d) => c <= d

\* dashboard_screen with only the presence of the session checked
dashboard_screen_unchecked(req) ==
    /\ authenticated
    /\ IF session_data = None
       THEN dashboard_expired
       ELSE /\ WithinBounds(req)
            /\ CASE req.widget = "none" -> dashboard_view
                 [] req.widget = "logout" -> dashboard_logout
                 [] req.widget = "transfer" ->
                       dashboard_transfer(req.recipient, req.amount)
                 [] req.widget = "quick_trans" ->
                       dashboard_quick_trans(FreshChatId)

dashboard_screen(req) ==
    /\ authenticated
    /\ IF session_data = None
          \/ ~is_session_valid(session_data, now, SESSION_TIMEOUT_MINUTES)
       THEN dashboard_expired
       ELSE /\ WithinBounds(req)
            /\ CASE req.widget = "none" -> dashboard_view
                 [] req.widget = "logout" -> dashboard_logout
                 [] req.widget = "transfer" ->
                       dashboard_transfer(req.recipient, req.amount)
                 [] req.widget = "quick_trans" ->
                       dashboard_quick_trans(FreshChatId)

----------------------------------------------------------------------------

(* The application with the transfer form; the visitor knows the PIN *)

Next ==
    \/ \E d \in TickSteps : Tick(d)
    \/ \E uid \in UidInputs, pin \in {Pin0000} \cup BadPinInputs :
          login_screen(uid, pin)
    \/ \E req \in TransferRequests : dashboard_screen(req)

Spec == Init /\ [][Next]_vars

(* The login screen with right and wrong PINs, and the requests of a session *)

NextLogin ==
    \/ \E d \in TickSteps : Tick(d)
    \/ \E uid \in UidInputs, pin \in PinInputs : login_screen(uid, pin)
    \/ \E req \in SessionRequests : dashboard_screen(req)

SpecLogin == Init /\ [][NextLogin]_vars

(* Two identifiers, one stored and one unknown, and wrong PINs only; the   *)
(* clock advances by a whole lockout window                                *)

NextPair ==
    \/ Tick(Minutes(LOCKOUT_MINUTES))
    \/ \E uid \in {U1, UX} : login_screen(uid, Pin1111)

SpecPair == Init /\ [][NextPair]_vars

----------------------------------------------------------------------------
(* Direct calls of the RateLimiter methods on one instance *)

\* an instance holds at most this many attempts of one identifier
MaxHeld == 5

RLIdentifiers == {U1, UX}

RLCall(fn, identifier, locked, message, dropped) ==
    [fn |-> fn, identifier |-> identifier, locked |-> locked,
     message |-> message, dropped |-> dropped]

call_record_attempt(identifier) ==
    /\ Len(attempts[identifier]) < MaxHeld
    /\ attempts' = record_attempt(attempts, identifier, now, LOCKOUT_MINUTES)
    /\ call' = RLCall("record_attempt", identifier, FALSE, Msg(""), 0)
    /\ UNCHANGED <<now, db, disk, authenticated, user_id, session_data,
                   chat_history, all_chats, current_chat_id, last>>

\* dropped: how many stale attempts the call pruned
call_is_locked_out(identifier) ==
    LET lk == is_locked_out(attempts, identifier, now, MAX_LOGIN_ATTEMPTS,
                            LOCKOUT_MINUTES)
    IN  /\ attempts' = lk.attempts
        /\ call' = RLCall("is_locked_out", identifier, lk.locked, lk.message,
                          Len(attempts[identifier])
                          - Len(lk.attempts[identifier]))
        /\ UNCHANGED <<now, db, disk, authenticated, user_id, session_data,
                       chat_history, all_chats, current_chat_id, last>>

call_reset_attempts(identifier) ==
    /\ attempts' = reset_attempts(attempts, identifier)
    /\ call' = RLCall("reset_attempts", identifier, FALSE, Msg(""), 0)
    /\ UNCHANGED <<now, db, disk, authenticated, user_id, session_data,
                   chat_history, all_chats, current_chat_id, last>>

NextRateLimiter ==
    \/ \E d \in TickSteps : Tick(d)
    \/ \E i \in RLIdentifiers : call_record_attempt(i)
    \/ \E i \in RLIdentifiers : call_is_locked_out(i)
    \/ \E i \in RLIdentifiers : call_reset_attempts(i)

SpecRateLimiter == Init /\ [][NextRateLimiter]_vars

----------------------------------------------------------------------------
(* Direct calls of SessionManager.is_session_valid *)

\* the sessions handed to is_session_valid: none, one without last_activity,
\* and the sessions create_session and update_activity produced up to now
SessionInputs ==
    {None}
    \cup {Some([user_id |-> u, token |-> k, created_at |-> c,
               last_activity |-> None]) :
            u \in {U1}, k \in Tokens, c \in {0}}
    \cup {Some([user_id |-> u, token |-> k, created_at |-> c,
               last_activity |-> Some(a)]) :
            u \in {U1, U2}, k \in Tokens,
            c \in {t \in 0..now : t % Minutes(5) = 0 /\ t <= Minutes(5)},
            a \in {t \in 0..now : t % Minutes(5) = 0}}

call_is_session_valid(session) ==
    /\ session # None /\ session[1].last_activity # None
          => session[1].created_at <= session[1].last_activity[1]
    /\ call' = [fn |-> "is_session_valid", session |-> session,
                ret |-> is_session_valid(session, now, SESSION_TIMEOUT_MINUTES)]
    /\ UNCHANGED <<now, appVars, last>>

NextSession ==
    \/ \E d \in TickSteps : Tick(d)
    \/ \E session \in SessionInputs : call_is_session_valid(session)

SpecSession == Init /\ [][NextSession]_vars

----------------------------------------------------------------------------
(* process_transfer when save_data raises: open(DB_FILE, 'w') or json.dump  *)
(* fails (disk full, no permission).  Nothing in process_transfer or its    *)
(* caller catches the exception, and user is the dict held in               *)
(* st.session_state.db, so what was assigned before the call stays.         *)

\* the store when the exception leaves process_transfer: lines 447-456 ran
process_transfer_save_raises(store, uid, recipient, amount, t) ==
    LET clean == sanitize_text(recipient)
        balance2 == store[uid].balance - amount
        new_txn == Txn(Today(t), <<"Transfer to ">> \o clean, "Transfer",
                       -amount, "Debit")
    IN  [store EXCEPT ![uid].balance = balance2,
                      ![uid].transactions = <<new_txn>> \o @,
                      ![uid].history = Append(@, balance2)]

\* the file after a save_data that raised: untouched when open() failed,
\* truncated (load_data then falls back to the default data, as for no file)
\* when json.dump failed
FailedSaveFiles(file) == {file, None}

\* the Transfer form was submitted, the transfer passed every validation and
\* save_data raised
dashboard_transfer_save_raises(recipient, amount, file) ==
    /\ authenticated
    /\ session_data # None
    /\ is_session_valid(session_data, now, SESSION_TIMEOUT_MINUTES)
    /\ WithinBounds(Request("transfer", recipient, amount))
    /\ recipient # <<>>
    /\ process_transfer(db, user_id[1], recipient, amount, now).success
    /\ file \in FailedSaveFiles(disk)
    /\ session_data' = update_activity(session_data, now)
    /\ db' = process_transfer_save_raises(db, user_id[1], recipient, amount, now)
    /\ disk' = file
    /\ last' = Shown("exception", Msg("save_data raised"), FALSE)
    /\ UNCHANGED <<now, attempts, authenticated, user_id, chat_history,
                   all_chats, current_chat_id, call>>

(* The application with the transfer form and a file that may fail *)

NextFaults ==
    \/ \E d \in TickSteps : Tick(d)
    \/ \E uid \in {U1}, pin \in {Pin0000} : login_screen(uid, pin)
    \/ \E req \in TransferRequests : dashboard_screen(req)
    \/ \E r \in RecipientInputs, a \in AmountInputs :
          \E file \in FailedSaveFiles(disk) :
              dashboard_transfer_save_raises(r, a, file)

SpecFaults == Init /\ [][NextFaults]_vars

----------------------------------------------------------------------------
(* Direct calls of process_transfer for the user of the session *)

\* Rs. -1.00, 0.99, 1.00, 50,000.00 and 50,000.01, and Rs. 45,750.50, the
\* whole balance of account 1234567890
CallAmounts == {-100, 99, 100, 4575050, 5000000, 5000001}

call_process_transfer(recipient, amount) ==
    /\ authenticated
    /\ user_id # None
    /\ WithinBounds(Request("transfer", recipient, amount))
    /\ LET r == process_transfer(db, user_id[1], recipient, amount, now)
       IN  /\ db' = r.db
           /\ disk' = IF r.saved THEN save_data(r.db) ELSE disk
           /\ call' = [fn |-> "process_transfer", recipient |-> recipient,
                       amount |-> amount, success |-> r.success,
                       message |-> r.message]
    /\ UNCHANGED <<now, attempts, authenticated, user_id, session_data,
                   chat_history, all_chats, current_chat_id, last>>

NextTransferCalls ==
    \/ Tick(Minutes(SESSION_TIMEOUT_MINUTES))
    \/ login_screen(U1, Pin0000)
    \/ login_screen(U2, Pin1111)
    \/ \E r \in RecipientInputs, a \in CallAmounts : call_process_transfer(r, a)

SpecTransferCalls == Init /\ [][NextTransferCalls]_vars

----------------------------------------------------------------------------
(* Text: a str is the sequence of its characters *)

UpperCase ==
    <<"A", "B", "C", "D", "E", "F", "G", "H", "I", "J", "K", "L", "M",
      "N", "O", "P", "Q", "R", "S", "T", "U", "V", "W", "X", "Y", "Z">>

LowerCase ==
    <<"a", "b", "c", "d", "e", "f", "g", "h", "i", "j", "k", "l", "m",
      "n", "o", "p", "q", "r", "s", "t", "u", "v", "w", "x", "y", "z">>

\* str.lower(), character by character
LowerChar(c) ==
    IF \E i \in 1..Len(UpperCase) : UpperCase[i] = c
    THEN LowerCase[CHOOSE i \in 1..Len(UpperCase) : UpperCase[i] = c]
    ELSE c

Lower(s) == [i \in 1..Len(s) |-> LowerChar(s[i])]

\* sub in s
Contains(s, sub) ==
    \E i \in 0..(Len(s) - Len(sub)) :
        \A j \in 1..Len(sub) : s[i + j] = sub[j]

\* any(w in s for w in words), words a list
AnyIn(words, s) == \E k \in 1..Len(words) : Contains(s, words[k])

----------------------------------------------------------------------------
(* Domain classifier and post-filter: src/bankbot.py *)


\* RESTRICTED_TOPICS: the groups in the order of the dict
RESTRICTED_TOPICS ==
    <<
      (* technology *)
      <<
        <<"c", "o", "d", "i", "n", "g">>,
        <<"p", "r", "o", "g", "r", "a", "m", "m", "i", "n", "g">>,
        <<"p", "y", "t", "h", "o", "n">>,
        <<"j", "a", "v", "a", "s", "c", "r", "i", "p", "t">>,
        <<"h", "t", "m", "l">>,
        <<"c", "s", "s">>,
        <<"s", "o", "f", "t", "w", "a", "r", "e">>,
        <<"c", "o", "m", "p", "u", "t", "e", "r">>,
        <<"a", "l", "g", "o", "r", "i", "t", "h", "m">>,
        <<"d", "e", "b", "u", "g">>
      >>,
      (* general_knowledge *)
      <<
        <<"h", "i", "s", "t", "o", "r", "y">>,
        <<"p", "o", "l", "i", "t", "i", "c", "s">>,
        <<"g", "e", "o", "g", "r", "a", "p", "h", "y">>,
        <<"s", "c", "i", "e", "n", "c", "e">>,
        <<"p", "h", "y", "s", "i", "c", "s">>,
        <<"c", "h", "e", "m", "i", "s", "t", "r", "y">>,
        <<"b", "i", "o", "l", "o", "g", "y">>,
        <<"m", "a", "t", "h">>,
        <<"c", "a", "p", "i", "t", "a", "l">>
      >>,
      (* entertainment *)
      <<
        <<"j", "o", "k", "e">>,
        <<"r", "i", "d", "d", "l", "e">>,
        <<"s", "t", "o", "r", "y">>,
        <<"m", "o", "v", "i", "e">>,
        <<"f", "i", "l", "m">>,
        <<"m", "u", "s", "i", "c">>,
        <<"s", "o", "n", "g">>,
        <<"g", "a", "m", "e">>,
        <<"m", "e", "m", "e">>
      >>,
      (* lifestyle *)
      <<
        <<"c", "o", "o", "k", "i", "n", "g">>,
        <<"r", "e", "c", "i", "p", "e">>,
        <<"f", "a", "s", "h", "i", "o", "n">>,
        <<"t", "r", "a", "v", "e", "l">>,
        <<"s", "p", "o", "r", "t">>,
        <<"f", "i", "t", "n", "e", "s", "s">>,
        <<"e", "x", "e", "r", "c", "i", "s", "e">>,
        <<"w", "o", "r", "k", "o", "u", "t">>
      >>,
      (* other *)
      <<
        <<"w", "e", "a", "t", "h", "e", "r">>,
        <<"n", "e", "w", "s">>,
        <<"c", "e", "l", "e", "b", "r", "i", "t", "y">>,
        <<"a", "s", "t", "r", "o", "l", "o", "g", "y">>,
        <<"h", "o", "r", "o", "s", "c", "o", "p", "e">>,
        <<"p", "o", "e", "m">>,
        <<"e", "s", "s", "a", "y">>
      >>
    >>

\* BANKING_KEYWORDS: the groups in the order of the dict
BANKING_KEYWORDS ==
    <<
      (* account *)
      <<
        <<"b", "a", "l", "a", "n", "c", "e">>,
        <<"a", "c", "c", "o", "u", "n", "t">>,
        <<"s", "t", "a", "t", "e", "m", "e", "n", "t">>,
        <<"p", "r", "o", "f", "i", "l", "e">>,
        <<"d", "e", "t", "a", "i", "l", "s">>,
        <<"i", "n", "f", "o">>,
        <<"s", "u", "m", "m", "a", "r", "y">>
      >>,
      (* transactions *)
      <<
        <<"t", "r", "a", "n", "s", "a", "c", "t", "i", "o", "n">>,
        <<"h", "i", "s", "t", "o", "r", "y">>,
        <<"p", "a", "y", "m", "e", "n", "t">>,
        <<"t", "r", "a", "n", "s", "f", "e", "r">>,
        <<"s", "e", "n", "t">>,
        <<"r", "e", "c", "e", "i", "v", "e", "d">>,
        <<"r", "e", "c", "e", "n", "t">>,
        <<"l", "a", "s", "t">>
      >>,
      (* services *)
      <<
        <<"l", "o", "a", "n">>,
        <<"c", "r", "e", "d", "i", "t">>,
        <<"d", "e", "b", "i", "t">>,
        <<"c", "a", "r", "d">>,
        <<"i", "n", "t", "e", "r", "e", "s", "t">>,
        <<"s", "a", "v", "i", "n", "g", "s">>,
        <<"d", "e", "p", "o", "s", "i", "t">>,
        <<"f", "i", "x", "e", "d">>,
        <<"f", "d">>
      >>,
      (* operations *)
      <<
        <<"s", "e", "n", "d">>,
        <<"p", "a", "y">>,
        <<"w", "i", "t", "h", "d", "r", "a", "w">>,
        <<"d", "e", "p", "o", "s", "i", "t">>,
        <<"t", "r", "a", "n", "s", "f", "e", "r">>,
        <<"u", "p", "i">>,
        <<"m", "o", "n", "e", "y">>
      >>,
      (* queries *)
      <<
        <<"b", "r", "a", "n", "c", "h">>,
        <<"h", "o", "u", "r", "s">>,
        <<"c", "o", "n", "t", "a", "c", "t">>,
        <<"s", "u", "p", "p", "o", "r", "t">>,
        <<"h", "e", "l", "p">>,
        <<"l", "i", "m", "i", "t">>,
        <<"p", "o", "l", "i", "c", "y">>,
        <<"r", "a", "t", "e">>,
        <<"f", "e", "e">>
      >>,
      (* financial *)
      <<
        <<"s", "p", "e", "n", "d">>,
        <<"e", "x", "p", "e", "n", "s", "e">>,
        <<"i", "n", "c", "o", "m", "e">>,
        <<"b", "u", "d", "g", "e", "t">>,
        <<"i", "n", "v", "e", "s", "t", "m", "e", "n", "t">>,
        <<"p", "o", "r", "t", "f", "o", "l", "i", "o">>
      >>
    >>

\* is_banking_query: small_talk
small_talk ==
    <<
      <<"h", "i">>,
      <<"h", "e", "l", "l", "o">>,
      <<"h", "e", "y">>,
      <<"h", "o", "w", " ", "a", "r", "e", " ", "y", "o", "u">>,
      <<"h", "o", "w", " ", "d", "o", " ", "y", "o", "u", " ", "d", "o">>,
      <<"w", "h", "o", " ", "a", "r", "e", " ", "y", "o", "u">>,
      <<"w", "h", "a", "t", " ", "c", "a", "n", " ", "y", "o", "u", " ", "d", "o">>,
      <<"t", "h", "a", "n", "k", "s">>,
      <<"t", "h", "a", "n", "k", " ", "y", "o", "u">>,
      <<"g", "o", "o", "d", " ", "m", "o", "r", "n", "i", "n", "g">>,
      <<"g", "o", "o", "d", " ", "e", "v", "e", "n", "i", "n", "g">>,
      <<"n", "i", "c", "e", " ", "t", "o", " ", "m", "e", "e", "t", " ", "y", "o", "u">>
    >>

\* validate_ollama_response: off_topic_indicators
off_topic_indicators ==
    <<
      <<"h", "e", "r", "e", " ", "i", "s", " ", "a", " ", "p", "y", "t", "h", "o", "n", " ", "s", "c", "r", "i", "p", "t">>,
      <<"h", "e", "r", "e", "'", "s", " ", "s", "o", "m", "e", " ", "c", "o", "d", "e">>,
      <<"d", "e", "f", " ">>,
      <<"f", "u", "n", "c", "t", "i", "o", "n", "(">>,
      <<"i", "m", "p", "o", "r", "t", " ">>,
      <<"r", "e", "c", "i", "p", "e", " ", "f", "o", "r">>,
      <<"i", "n", "g", "r", "e", "d", "i", "e", "n", "t", "s", ":">>,
      <<"w", "o", "r", "l", "d", " ", "w", "a", "r">>,
      <<"t", "h", "e", " ", "c", "a", "p", "i", "t", "a", "l", " ", "o", "f">>,
      <<"o", "n", "c", "e", " ", "u", "p", "o", "n", " ", "a", " ", "t", "i", "m", "e">>
    >>

\* validate_ollama_response: banking_terms
banking_terms ==
    <<
      <<"a", "c", "c", "o", "u", "n", "t">>,
      <<"b", "a", "l", "a", "n", "c", "e">>,
      <<"t", "r", "a", "n", "s", "a", "c", "t", "i", "o", "n">>,
      <<"t", "r", "a", "n", "s", "f", "e", "r">>,
      <<"b", "a", "n", "k">>,
      <<"c", "r", "e", "d", "i", "t">>,
      <<"d", "e", "b", "i", "t">>,
      <<"l", "o", "a", "n">>,
      <<"d", "e", "p", "o", "s", "i", "t">>
    >>

\* the two refusals of is_banking_query and the one of the post-filter
OFF_DOMAIN_REFUSAL ==
    "I apologize, but I can only assist with banking and financial queries."

BANKING_ONLY_REFUSAL ==
    "I can only assist with banking-related questions about your account, transactions, transfers, loans, and other financial services."

\* a text typed by the user or produced by the service, as a message
Text(chars) == Message("{}", 0, chars)

\* for category, keywords in table.items(): any keyword in s
AnyGroupIn(groups, s) == \E g \in 1..Len(groups) : AnyIn(groups[g], s)

\* is_banking_query with the banking keywords looked for before the
\* restricted ones
is_banking_query_allow_first(prompt) ==
    LET prompt_lower == Lower(prompt)
    IN  IF AnyIn(small_talk, prompt_lower)
        THEN [valid |-> TRUE, reason |-> Msg("conversation")]
        ELSE IF AnyGroupIn(BANKING_KEYWORDS, prompt_lower)
        THEN [valid |-> TRUE, reason |-> Msg("valid banking query")]
        ELSE IF AnyGroupIn(RESTRICTED_TOPICS, prompt_lower)
        THEN [valid |-> FALSE, reason |-> Msg(OFF_DOMAIN_REFUSAL)]
        ELSE [valid |-> FALSE, reason |-> Msg(BANKING_ONLY_REFUSAL)]

\* is_banking_query with the restricted keywords looked for before the
\* greeting phrases
is_banking_query_deny_first(prompt) ==
    LET prompt_lower == Lower(prompt)
    IN  IF AnyGroupIn(RESTRICTED_TOPICS, prompt_lower)
        THEN [valid |-> FALSE, reason |-> Msg(OFF_DOMAIN_REFUSAL)]
        ELSE IF AnyIn(small_talk, prompt_lower)
        THEN [valid |-> TRUE, reason |-> Msg("conversation")]
        ELSE IF ~AnyGroupIn(BANKING_KEYWORDS, prompt_lower)
        THEN [valid |-> FALSE, reason |-> Msg(BANKING_ONLY_REFUSAL)]
        ELSE [valid |-> TRUE, reason |-> Msg("valid banking query")]

\* is_banking_query: (is_valid, reason)
is_banking_query(prompt) ==
    LET prompt_lower == Lower(prompt)
    IN  IF AnyIn(small_talk, prompt_lower)
        THEN [valid |-> TRUE, reason |-> Msg("conversation")]
        ELSE IF AnyGroupIn(RESTRICTED_TOPICS, prompt_lower)
        THEN [valid |-> FALSE, reason |-> Msg(OFF_DOMAIN_REFUSAL)]
        ELSE IF ~AnyGroupIn(BANKING_KEYWORDS, prompt_lower)
        THEN [valid |-> FALSE, reason |-> Msg(BANKING_ONLY_REFUSAL)]
        ELSE [valid |-> TRUE, reason |-> Msg("valid banking query")]

\* len(response) > 800
RESPONSE_LENGTH_LIMIT == 800

\* validate_ollama_response with "len(response) >= 800"
validate_ollama_response_inclusive(response, original_query) ==
    LET response_lower == Lower(response)
        has_banking_term == AnyIn(banking_terms, response_lower)
    IN  IF AnyIn(off_topic_indicators, response_lower)
        THEN Msg(OFF_DOMAIN_REFUSAL)
        ELSE IF Len(response) >= RESPONSE_LENGTH_LIMIT /\ ~has_banking_term
        THEN Msg(OFF_DOMAIN_REFUSAL)
        ELSE Text(response)

\* validate_ollama_response with long responses refused whatever they mention
validate_ollama_response_length_only(response, original_query) ==
    LET response_lower == Lower(response)
    IN  IF AnyIn(off_topic_indicators, response_lower)
        THEN Msg(OFF_DOMAIN_REFUSAL)
        ELSE IF Len(response) > RESPONSE_LENGTH_LIMIT
        THEN Msg(OFF_DOMAIN_REFUSAL)
        ELSE Text(response)

\* validate_ollama_response: the response, or the refusal
validate_ollama_response(response, original_query) ==
    LET response_lower == Lower(response)
        has_banking_term == AnyIn(banking_terms, response_lower)
    IN  IF AnyIn(off_topic_indicators, response_lower)
        THEN Msg(OFF_DOMAIN_REFUSAL)
        ELSE IF Len(response) > RESPONSE_LENGTH_LIMIT /\ ~has_banking_term
        THEN Msg(OFF_DOMAIN_REFUSAL)
        ELSE Text(response)

----------------------------------------------------------------------------
(* Rule tier: get_bot_response, src/bankbot.py *)

\* the keywords of the handlers of get_bot_response, in the order of the
\* if/elif chain
HandlerWords ==
    <<
      (* balance *)
      <<
        <<"b", "a", "l", "a", "n", "c", "e">>,
        <<"h", "o", "w", " ", "m", "u", "c", "h", " ", "m", "o", "n", "e", "y">>,
        <<"f", "u", "n", "d">>
      >>,
      (* transaction history *)
      <<
        <<"t", "r", "a", "n", "s", "a", "c", "t", "i", "o", "n">>,
        <<"h", "i", "s", "t", "o", "r", "y">>,
        <<"r", "e", "c", "e", "n", "t">>,
        <<"l", "a", "s", "t">>
      >>,
      (* spend analytics *)
      <<
        <<"s", "p", "e", "n", "d">>,
        <<"e", "x", "p", "e", "n", "s", "e">>,
        <<"a", "n", "a", "l", "y", "t", "i", "c", "s">>
      >>,
      (* profile *)
      <<
        <<"p", "r", "o", "f", "i", "l", "e">>,
        <<"a", "c", "c", "o", "u", "n", "t">>,
        <<"d", "e", "t", "a", "i", "l", "s">>,
        <<"i", "n", "f", "o">>
      >>,
      (* transfer guidance *)
      <<
        <<"t", "r", "a", "n", "s", "f", "e", "r">>,
        <<"s", "e", "n", "d">>,
        <<"p", "a", "y">>
      >>,
      (* greeting *)
      <<
        <<"h", "i">>,
        <<"h", "e", "l", "l", "o">>,
        <<"h", "e", "y">>
      >>,
      (* farewell *)
      <<
        <<"b", "y", "e">>,
        <<"g", "o", "o", "d", "b", "y", "e">>
      >>,
      (* help *)
      <<
        <<"h", "e", "l", "p">>,
        <<"w", "h", "a", "t", " ", "c", "a", "n", " ", "y", "o", "u">>,
        <<"w", "h", "a", "t", " ", "d", "o", " ", "y", "o", "u", " ", "d", "o", " ">>,
        <<"w", "h", "o", " ", "a", "r", "e", " ", "y", "o", "u">>
      >>
    >>

\* random.choice(responses): the three balance templates
BalanceTemplates ==
    <<"Right now, you have {} in your {} account.",
      "Your account balance is {}. Looking good!",
      "Let me check... You currently have {} available.">>

\* datetime.now().hour
Hour(t) == (t \div 3600) % 24

Abs(n) == IF n < 0 THEN -n ELSE n

\* the debits of the user: df[df['type'] == 'Debit']
Debits(user) == SelectSeq(user.transactions, LAMBDA x : x.type = "Debit")

RECURSIVE AmtSum(_)
AmtSum(txns) == IF txns = <<>> THEN 0 ELSE Head(txns).amt + AmtSum(Tail(txns))

\* debits.groupby('cat')['amt'].sum().abs().idxmax(); "N/A" without debits.
\* Among categories with the same total pandas takes the first in sorted
\* order; the records here never tie.
TopCategory(debits) ==
    IF debits = <<>> THEN "N/A"
    ELSE LET cats == {debits[i].cat : i \in 1..Len(debits)}
             total(c) == Abs(AmtSum(SelectSeq(debits, LAMBDA x : x.cat = c)))
         IN  CHOOSE c \in cats : \A d \in cats : total(c) >= total(d)

\* get_bot_response with the help handler tried first
get_bot_response_help_first(prompt, user, uid, choice, t) ==
    LET prompt_lower == Lower(prompt)
    IN  IF AnyIn(HandlerWords[8], prompt_lower)
        THEN Message("I'm your AI Banking Assistant! Current balance {}",
                     user.balance, <<>>)
        ELSE IF AnyIn(HandlerWords[1], prompt_lower)
        THEN Message(BalanceTemplates[choice], user.balance,
                     <<user.type, ToString(user.credit_score)>>)
        ELSE IF AnyIn(HandlerWords[2], prompt_lower)
        THEN LET all == user.transactions
                 trans == SubSeq(all, 1, IF Len(all) < 3 THEN Len(all) ELSE 3)
             IN  Message("Here are your last {} transactions: {}",
                         Len(trans), trans)
        ELSE IF AnyIn(HandlerWords[3], prompt_lower)
        THEN LET debits == Debits(user)
             IN  Message("Spending Analysis: Total Spent {} Average {} Top {}",
                         Abs(AmtSum(debits)),
                         <<ToString(Len(debits)), TopCategory(debits)>>)
        ELSE IF AnyIn(HandlerWords[4], prompt_lower)
        THEN Message("Your Profile: {}", user.balance,
                     <<user.name, user.type, ToString(user.credit_score)>>
                         \o uid)
        ELSE IF AnyIn(HandlerWords[5], prompt_lower)
        THEN Message("Money Transfer Guide: Current balance {}",
                     user.balance, <<>>)
        ELSE IF AnyIn(HandlerWords[6], prompt_lower)
        THEN Message("{} {}! How can I help you today?", 0,
                     <<IF Hour(t) < 12 THEN "Good morning"
                       ELSE IF Hour(t) < 18 THEN "Good afternoon"
                       ELSE "Good evening",
                       user.name>>)
        ELSE IF AnyIn(HandlerWords[7], prompt_lower)
        THEN Msg("Goodbye! Stay secure!")
        ELSE Msg("NEED_OLLAMA")

\* get_bot_response for the record user of account uid; choice is what
\* random.choice draws, t the time of the call.  The numbers a template
\* shows besides the first are kept as their digits; the mean of the debits is
\* kept as the pair (total, count).
get_bot_response(prompt, user, uid, choice, t) ==
    LET prompt_lower == Lower(prompt)
    IN  IF AnyIn(HandlerWords[1], prompt_lower)
        THEN Message(BalanceTemplates[choice], user.balance,
                     <<user.type, ToString(user.credit_score)>>)
        ELSE IF AnyIn(HandlerWords[2], prompt_lower)
        THEN LET all == user.transactions
                 trans == SubSeq(all, 1, IF Len(all) < 3 THEN Len(all) ELSE 3)
             IN  Message("Here are your last {} transactions: {}",
                         Len(trans), trans)
        ELSE IF AnyIn(HandlerWords[3], prompt_lower)
        THEN LET debits == Debits(user)
             IN  Message("Spending Analysis: Total Spent {} Average {} Top {}",
                         Abs(AmtSum(debits)),
                         <<ToString(Len(debits)), TopCategory(debits)>>)
        ELSE IF AnyIn(HandlerWords[4], prompt_lower)
        THEN Message("Your Profile: {}", user.balance,
                     <<user.name, user.type, ToString(user.credit_score)>>
                         \o uid)
        ELSE IF AnyIn(HandlerWords[5], prompt_lower)
        THEN Message("Money Transfer Guide: Current balance {}",
                     user.balance, <<>>)
        ELSE IF AnyIn(HandlerWords[6], prompt_lower)
        THEN Message("{} {}! How can I help you today?", 0,
                     <<IF Hour(t) < 12 THEN "Good morning"
                       ELSE IF Hour(t) < 18 THEN "Good afternoon"
                       ELSE "Good evening",
                       user.name>>)
        ELSE IF AnyIn(HandlerWords[7], prompt_lower)
        THEN Msg("Goodbye! Stay secure!")
        ELSE IF AnyIn(HandlerWords[8], prompt_lower)
        THEN Message("I'm your AI Banking Assistant! Current balance {}",
                     user.balance, <<>>)
        ELSE Msg("NEED_OLLAMA")

----------------------------------------------------------------------------
(* Direct calls of is_banking_query *)

\* the longest query, in words
MaxWords == 2

\* words with a restricted keyword (joke, Weather), a banking keyword (loan,
\* pay), both (history), a greeting phrase (hello, thanks) or a greeting
\* phrase inside another word (this, history), and a word with none
QueryWords ==
    {<<"j", "o", "k", "e">>, <<"W", "e", "a", "t", "h", "e", "r">>,
     <<"l", "o", "a", "n">>, <<"p", "a", "y">>,
     <<"h", "i", "s", "t", "o", "r", "y">>,
     <<"H", "e", "l", "l", "o">>, <<"t", "h", "a", "n", "k", "s">>,
     <<"t", "h", "i", "s">>, <<"x", "y", "z">>,
     <<"b", "a", "l", "a", "n", "c", "e">>, <<"b", "y", "e">>}

\* the queries of n words, separated by blanks
RECURSIVE QueriesOf(_)
QueriesOf(n) ==
    IF n = 1 THEN QueryWords
    ELSE {q \o <<" ">> \o w : q \in QueriesOf(n - 1), w \in QueryWords}

Queries == UNION {QueriesOf(n) : n \in 1..MaxWords}

\* one call in each behaviour
call_is_banking_query(prompt) ==
    /\ call = NoCall
    /\ LET r == is_banking_query(prompt)
       IN  call' = [fn |-> "is_banking_query", prompt |-> prompt,
                    valid |-> r.valid, reason |-> r.reason]
    /\ UNCHANGED <<now, appVars, last>>

NextClassifier ==
    \E prompt \in Queries : call_is_banking_query(prompt)

SpecClassifier == Init /\ [][NextClassifier]_vars

----------------------------------------------------------------------------
(* dashboard_screen, the assistant tab: src/bankbot.py *)

\* what the chat functions read and write of st.session_state, and the file
ChatState(history, chat_id, chats, store, file, uid) ==
    [chat_history |-> history, current_chat_id |-> chat_id,
     all_chats |-> chats, db |-> store, disk |-> file, user_id |-> uid]

\* add_chat_message(role, content) then save_current_chat()
Answer(st, content, tier, new_id, t) ==
    LET h == add_chat_message(st.chat_history, "assistant", content, t)
        s == save_current_chat(h, st.current_chat_id, st.all_chats, st.db,
                               st.disk, st.user_id, new_id, t)
    IN  [state |-> ChatState(h, s.chat_id, s.chats, s.db, s.disk, st.user_id),
         tier |-> tier]

\* add_chat_message("user", prompt)
Ask(st, prompt, t) ==
    [st EXCEPT !.chat_history = add_chat_message(@, "user", Text(prompt), t)]

\* "if prompt:" of the assistant tab with a safe_rerun() that returns after
\* the refusal, so that the run goes on to the rule tier and the service
chat_submit_falls_through(st, prompt, choice, reply, use_ollama, new_id, t) ==
    LET q == is_banking_query(prompt)
        refused == IF q.valid THEN st
                   ELSE Answer(Ask(st, prompt, t), q.reason, "rejected",
                               new_id, t).state
        asked == Ask(refused, prompt, t)
        user == st.db[st.user_id[1]]
        rule_response == get_bot_response(prompt, user, st.user_id[1], choice, t)
    IN  IF rule_response.text # "NEED_OLLAMA"
        THEN Answer(asked, rule_response, "rule", new_id, t)
        ELSE IF use_ollama
        THEN Answer(asked, validate_ollama_response(reply, prompt),
                    "generative", new_id, t)
        ELSE Answer(asked, Msg("Please enable Ollama for complex queries."),
                    "fallback", new_id, t)

\* "if prompt:" of the assistant tab.  safe_rerun() ends the run of the script
\* (st.rerun and st.stop raise), so each branch that calls it is the last.
\* choice is what random.choice draws, reply the text streamed by the
\* generative service, new_id the uuid drawn for a new conversation.
chat_submit(st, prompt, choice, reply, use_ollama, new_id, t) ==
    LET q == is_banking_query(prompt)
        asked == Ask(st, prompt, t)
        user == st.db[st.user_id[1]]
        rule_response == get_bot_response(prompt, user, st.user_id[1], choice, t)
    IN  IF ~q.valid
        THEN Answer(asked, q.reason, "rejected", new_id, t)
        ELSE IF rule_response.text # "NEED_OLLAMA"
        THEN Answer(asked, rule_response, "rule", new_id, t)
        ELSE IF use_ollama
        THEN LET s == save_current_chat(asked.chat_history,
                                        asked.current_chat_id, asked.all_chats,
                                        asked.db, asked.disk, asked.user_id,
                                        new_id, t)
                 saved == ChatState(asked.chat_history, s.chat_id, s.chats,
                                    s.db, s.disk, asked.user_id)
             IN  Answer(saved, validate_ollama_response(reply, prompt),
                        "generative", new_id, t)
        ELSE Answer(asked, Msg("Please enable Ollama for complex queries."),
                    "fallback", new_id, t)

\* the texts the generative service streams back
Replies == {<<"o", "k">>, <<"i", "m", "p", "o", "r", "t", " ", "x">>}

\* the prompts typed: rejected by the deny list, rejected for no banking
\* keyword, answered by the rule tier, and two that go to the service
Prompts ==
    {<<"j", "o", "k", "e">>, <<"x", "y", "z">>,
     <<"b", "a", "l", "a", "n", "c", "e">>, <<"l", "o", "a", "n">>,
     <<"t", "h", "a", "n", "k", "s">>}

\* the state after the request, applied
ApplyChat(r) ==
    /\ session_data' = update_activity(session_data, now)
    /\ chat_history' = r.state.chat_history
    /\ current_chat_id' = r.state.current_chat_id
    /\ all_chats' = r.state.all_chats
    /\ db' = r.state.db
    /\ disk' = r.state.disk
    /\ last' = Shown(r.tier, r.state.chat_history[Len(r.state.chat_history)].content,
                     FALSE)
    /\ UNCHANGED <<now, attempts, authenticated, user_id, call>>

\* a prompt typed into st.chat_input
dashboard_chat(prompt, choice, reply, use_ollama) ==
    /\ Len(chat_history) + 2 <= MaxChatLen
    /\ current_chat_id = None => Len(all_chats) < MaxChats
    /\ ApplyChat(chat_submit(ChatState(chat_history, current_chat_id, all_chats,
                                       db, disk, user_id),
                             prompt, choice, reply, use_ollama, FreshChatId, now))

\* "Save & Retry" on the user message at index i (counted from 0): the
\* history is cut before it and the rerun it asks for handles new_text as
\* the prompt
dashboard_retry(i, new_text, choice, reply, use_ollama) ==
    /\ i < Len(chat_history)
    /\ chat_history[i + 1].role = "user"
    /\ i + 2 <= MaxChatLen
    /\ current_chat_id = None => Len(all_chats) < MaxChats
    /\ ApplyChat(chat_submit(ChatState(SubSeq(chat_history, 1, i),
                                       current_chat_id, all_chats, db, disk,
                                       user_id),
                             new_text, choice, reply, use_ollama, FreshChatId,
                             now))

\* one run of dashboard_screen in which the assistant tab was used
dashboard_assistant(retry, i, prompt, choice, reply, use_ollama) ==
    /\ authenticated
    /\ IF session_data = None
          \/ ~is_session_valid(session_data, now, SESSION_TIMEOUT_MINUTES)
       THEN dashboard_expired
       ELSE IF retry
       THEN dashboard_retry(i, prompt, choice, reply, use_ollama)
       ELSE dashboard_chat(prompt, choice, reply, use_ollama)

(* The application with the assistant tab *)

NextChat ==
    \/ Tick(Minutes(SESSION_TIMEOUT_MINUTES))
    \/ login_screen(U1, Pin0000)
    \/ dashboard_screen(Request("logout", <<>>, 0))
    \/ \E retry \in BOOLEAN, i \in 0..(MaxChatLen - 1), prompt \in Prompts,
          choice \in 1..Len(BalanceTemplates), reply \in Replies,
          use_ollama \in BOOLEAN :
          dashboard_assistant(retry, i, prompt, choice, reply, use_ollama)

SpecChat == Init /\ [][NextChat]_vars

----------------------------------------------------------------------------
(* Direct calls of get_bot_response, and of the assistant tab's handling of *)
(* the same prompt in a new conversation of account 1234567890              *)

\* a word for each handler (fund and balance for the first), and one for none
RuleWords ==
    {<<"b", "a", "l", "a", "n", "c", "e">>, <<"f", "u", "n", "d">>,
     <<"H", "i", "s", "t", "o", "r", "y">>, <<"s", "p", "e", "n", "d">>,
     <<"a", "c", "c", "o", "u", "n", "t">>, <<"p", "a", "y">>,
     <<"h", "e", "y">>, <<"b", "y", "e">>, <<"h", "e", "l", "p">>,
     <<"l", "o", "a", "n">>, <<"x", "y", "z">>}

\* the prompts of one word and of two words separated by a blank
RulePrompts ==
    RuleWords \cup {v \o <<" ">> \o w : v \in RuleWords, w \in RuleWords}

\* one call in each behaviour
call_get_bot_response(prompt, choice, reply, use_ollama) ==
    /\ call = NoCall
    /\ LET st == ChatState(<<>>, None, <<>>, db, disk, Some(U1))
       IN  call' = [fn |-> "get_bot_response", prompt |-> prompt,
                    response |-> get_bot_response(prompt, db[U1], U1, choice,
                                                  now),
                    use_ollama |-> use_ollama,
                    tier |-> chat_submit(st, prompt, choice, reply, use_ollama,
                                         FreshChatId, now).tier]
    /\ UNCHANGED <<now, appVars, last>>

NextRuleTier ==
    \E prompt \in RulePrompts, choice \in 1..Len(BalanceTemplates),
       reply \in Replies, use_ollama \in BOOLEAN :
        call_get_bot_response(prompt, choice, reply, use_ollama)

SpecRuleTier == Init /\ [][NextRuleTier]_vars

----------------------------------------------------------------------------
(* Direct calls of validate_ollama_response *)

\* the elements of a list
Range(list) == {list[k] : k \in 1..Len(list)}

\* how a response begins: with nothing of note, with an off-topic indicator
\* (one of them in upper case), with a banking term (one of them in upper
\* case), or with a banking term followed by an indicator
PlainHeads == {<<>>, <<"h", "e", "l", "l", "o">>}

IndicatorHeads ==
    Range(off_topic_indicators) \cup {<<"I", "M", "P", "O", "R", "T", " ">>}

TermHeads == Range(banking_terms) \cup {<<"B", "a", "l", "a", "n", "c", "e">>}

BothHeads ==
    {term \o <<" ">> \o indicator :
        term \in {<<"b", "a", "l", "a", "n", "c", "e">>, <<"l", "o", "a", "n">>},
        indicator \in {<<"i", "m", "p", "o", "r", "t", " ">>,
                       <<"w", "o", "r", "l", "d", " ", "w", "a", "r">>}}

ResponseHeads == PlainHeads \cup IndicatorHeads \cup TermHeads \cup BothHeads

\* the lengths of the responses: the head alone, and around the limit
ResponseLengths ==
    {0, RESPONSE_LENGTH_LIMIT - 1, RESPONSE_LENGTH_LIMIT,
     RESPONSE_LENGTH_LIMIT + 1, RESPONSE_LENGTH_LIMIT + 100}

\* head followed by filler up to length n (head alone when it is longer)
Padded(head, n) ==
    head \o [i \in 1..(IF n > Len(head) THEN n - Len(head) ELSE 0) |-> "x"]

\* one call in each behaviour
call_validate_ollama_response(head, n) ==
    /\ call = NoCall
    /\ LET response == Padded(head, n)
       IN  call' = [fn |-> "validate_ollama_response", head |-> head,
                    response |-> response,
                    ret |-> validate_ollama_response(response, <<>>)]
    /\ UNCHANGED <<now, appVars, last>>

NextPostFilter ==
    \E head \in ResponseHeads, n \in ResponseLengths :
        call_validate_ollama_response(head, n)

SpecPostFilter == Init /\ [][NextPostFilter]_vars

----------------------------------------------------------------------------
(* The escalation path of the assistant tab, chunk by chunk: src/bankbot.py *)

\* the chunk yielded when the request or the stream fails
SYSTEM_ERROR ==
    <<"[", "S", "y", "s", "t", "e", "m", " ", "E", "r", "r", "o", "r", ":",
      " ", "U", "n", "a", "b", "l", "e", " ", "t", "o", " ", "c", "o", "n",
      "n", "e", "c", "t", " ", "t", "o", " ", "A", "I", " ", "s", "e", "r",
      "v", "i", "c", "e", "]">>

\* the most chunks a stream delivers
MaxChunks == 2

\* the generator before its first next(): no request made yet
NewStream ==
    [posts |-> 0, received |-> <<>>, yielded |-> <<>>, failed |-> FALSE,
     raised |-> FALSE, ended |-> FALSE]

\* what the service does next: a line with a "response" text, a line without
\* one (or an empty line), the line with "done" (or the end of the lines),
\* or a failure (of the request when nothing was read yet, of the stream or
\* of the decoding of a line afterwards)
StreamEvents ==
    {[kind |-> "chunk", text |-> c] : c \in Replies}
        \cup {[kind |-> k, text |-> <<>>] : k \in {"blank", "done", "error"}}

\* call_ollama_stream whose handler passes the exception on
call_ollama_stream_reraises(gen, event) ==
    IF gen.ended THEN gen
    ELSE CASE event.kind = "chunk" ->
                [gen EXCEPT !.posts = 1, !.received = Append(@, event.text),
                            !.yielded = Append(@, event.text)]
           [] event.kind = "blank" -> [gen EXCEPT !.posts = 1]
           [] event.kind = "done" -> [gen EXCEPT !.posts = 1, !.ended = TRUE]
           [] OTHER ->
                [gen EXCEPT !.posts = 1, !.failed = TRUE, !.raised = TRUE,
                            !.ended = TRUE]

\* call_ollama_stream(prompt), one event of the service further: the request
\* is made once, at the first step; a text is yielded as it is read; "done"
\* ends the generator; any Exception is answered by yielding SYSTEM_ERROR,
\* after which the generator ends
call_ollama_stream(gen, event) ==
    IF gen.ended THEN gen
    ELSE CASE event.kind = "chunk" ->
                [gen EXCEPT !.posts = 1, !.received = Append(@, event.text),
                            !.yielded = Append(@, event.text)]
           [] event.kind = "blank" -> [gen EXCEPT !.posts = 1]
           [] event.kind = "done" -> [gen EXCEPT !.posts = 1, !.ended = TRUE]
           [] OTHER ->
                [gen EXCEPT !.posts = 1, !.failed = TRUE,
                            !.yielded = Append(@, SYSTEM_ERROR),
                            !.ended = TRUE]

\* no stream is being read
NoStream == call.fn = "stream" => call.validated

\* STEP 1 to STEP 4 up to "stream = call_ollama_stream(strict_prompt)": the
\* prompt passes the classifier, the rule tier has no answer, the service is
\* enabled; the user message is added and saved and its bubble drawn
stream_begin(prompt) ==
    /\ authenticated
    /\ session_data # None
    /\ is_session_valid(session_data, now, SESSION_TIMEOUT_MINUTES)
    /\ NoStream
    /\ Len(chat_history) + 2 <= MaxChatLen
    /\ current_chat_id = None => Len(all_chats) < MaxChats
    /\ is_banking_query(prompt).valid
    /\ get_bot_response(prompt, db[user_id[1]], user_id[1], 1, now).text
          = "NEED_OLLAMA"
    /\ LET asked == Ask(ChatState(chat_history, current_chat_id, all_chats, db,
                                  disk, user_id), prompt, now)
           s == save_current_chat(asked.chat_history, current_chat_id,
                                  all_chats, db, disk, user_id, FreshChatId, now)
       IN  /\ chat_history' = asked.chat_history
           /\ current_chat_id' = s.chat_id
           /\ all_chats' = s.chats
           /\ db' = s.db
           /\ disk' = s.disk
    /\ session_data' = update_activity(session_data, now)
    /\ last' = Shown("prompt", Text(prompt), FALSE)
    /\ call' = [fn |-> "stream", prompt |-> prompt, gen |-> NewStream,
                resp_text |-> <<>>, validated |-> FALSE]
    /\ UNCHANGED <<now, attempts, authenticated, user_id>>

\* "for chunk in stream:", one event of the service: a chunk that is yielded
\* is added to resp_text and the placeholder is drawn again with resp_text
stream_step(event) ==
    /\ call.fn = "stream"
    /\ ~call.validated
    /\ ~call.gen.ended
    /\ event.kind = "chunk" => Len(call.gen.received) < MaxChunks
    /\ LET gen == call_ollama_stream(call.gen, event)
           n == Len(gen.yielded)
       IN  IF n > Len(call.gen.yielded)
           THEN /\ call' = [call EXCEPT !.gen = gen,
                                        !.resp_text = @ \o gen.yielded[n]]
                /\ last' = Shown("streaming",
                                 Text(call.resp_text \o gen.yielded[n]), FALSE)
           ELSE /\ call' = [call EXCEPT !.gen = gen]
                /\ UNCHANGED last
    /\ UNCHANGED <<now, appVars>>

\* STEP 5 after the loop: validate_ollama_response, the assistant message
\* added and saved, and the rerun that draws the conversation
stream_finish ==
    /\ call.fn = "stream"
    /\ ~call.validated
    /\ call.gen.ended
    /\ ~call.gen.raised
    /\ LET r == Answer(ChatState(chat_history, current_chat_id, all_chats, db,
                                 disk, user_id),
                       validate_ollama_response(call.resp_text, call.prompt),
                       "generative", FreshChatId, now)
       IN  /\ chat_history' = r.state.chat_history
           /\ current_chat_id' = r.state.current_chat_id
           /\ all_chats' = r.state.all_chats
           /\ db' = r.state.db
           /\ disk' = r.state.disk
           /\ last' = Shown("generative",
                            r.state.chat_history[Len(r.state.chat_history)].content,
                            FALSE)
    /\ call' = [call EXCEPT !.validated = TRUE]
    /\ UNCHANGED <<now, attempts, authenticated, user_id, session_data>>

NextStream ==
    \/ Tick(Minutes(SESSION_TIMEOUT_MINUTES))
    \/ login_screen(U1, Pin0000)
    \/ \E prompt \in Prompts : stream_begin(prompt)
    \/ \E event \in StreamEvents : stream_step(event)
    \/ stream_finish

SpecStream == Init /\ [][NextStream]_vars

----------------------------------------------------------------------------
(* Direct calls of the RateLimiter methods on a clock that is read between *)
(* the whole minutes                                                        *)

\* the clock advances by 7 minutes 30 seconds or by 14 minutes 30 seconds
PartMinuteSteps == {Minutes(7) + 30, Minutes(14) + 30}

NextLockoutClock ==
    \/ \E d \in PartMinuteSteps : Tick(d)
    \/ call_record_attempt(U1)
    \/ call_is_locked_out(U1)
    \/ call_reset_attempts(U1)

SpecLockoutClock == Init /\ [][NextLockoutClock]_vars

----------------------------------------------------------------------------
(* Direct calls of RateLimiter instances built with each configured        *)
(* max_attempts.  What an instance holds does not depend on max_attempts,   *)
(* only the verdict of is_locked_out does, so the instances share attempts. *)

\* values of int(os.getenv("MAX_LOGIN_ATTEMPTS", "5"))
ConfiguredMaxAttempts == {-1, 0, 1, MAX_LOGIN_ATTEMPTS}

call_is_locked_out_configured(identifier, max_attempts) ==
    LET lk == is_locked_out(attempts, identifier, now, max_attempts,
                            LOCKOUT_MINUTES)
    IN  /\ attempts' = lk.attempts
        /\ call' = [fn |-> "is_locked_out", identifier |-> identifier,
                    max_attempts |-> max_attempts, locked |-> lk.locked,
                    message |-> lk.message,
                    dropped |-> Len(attempts[identifier])
                                - Len(lk.attempts[identifier])]
        /\ UNCHANGED <<now, db, disk, authenticated, user_id, session_data,
                       chat_history, all_chats, current_chat_id, last>>

NextConfigured ==
    \/ \E d \in TickSteps : Tick(d)
    \/ call_record_attempt(U1)
    \/ call_reset_attempts(U1)
    \/ \E m \in ConfiguredMaxAttempts : call_is_locked_out_configured(U1, m)

SpecConfigured == Init /\ [][NextConfigured]_vars

----------------------------------------------------------------------------
(* load_data on each shape of the database file: src/bankbot.py *)

\* a string of the file: a bcrypt digest has the prefix "$2b$", any other
\* string has none; NoText stands where a record has no such key
PlainText(s) == [prefix |-> "", salt |-> "", secret |-> s]

NoText == PlainText(<<>>)

SecurityKeys == {"failed_login_attempts", "last_login", "account_locked_until"}

\* a record of the file: the keys it has and their values (a security field
\* that is stored holds a value other than the default)
StoredRecord(keys, pin, hashed_pin) ==
    [keys |-> keys, pin |-> pin, hashed_pin |-> hashed_pin,
     failed_login_attempts |->
         IF "failed_login_attempts" \in keys THEN 2 ELSE 0,
     last_login |-> IF "last_login" \in keys THEN Some(0) ELSE None,
     account_locked_until |-> None]

\* the shapes of a stored record: a plaintext pin, a pin that starts with
\* "$2b$", a migrated record; each with any of the security fields
StoredRecords ==
    UNION {{StoredRecord(ks \cup {"pin"}, PlainText(Pin0000), NoText),
            StoredRecord(ks \cup {"pin"}, hash_password(Pin0000, "saltA"),
                         NoText),
            StoredRecord(ks \cup {"hashed_pin"}, NoText,
                         hash_password(Pin0000, "saltA"))} :
           ks \in SUBSET SecurityKeys}

\* the file: absent, or a record for each of the two accounts
Files == {None} \cup {Some(f) : f \in [{U1, U2} -> StoredRecords]}

\* the body of "for user_id, user_data in data.items()"
migrate_record(r, salt) ==
    LET hashed == IF "pin" \in r.keys /\ r.pin.prefix # "$2b$"
                  THEN [r EXCEPT !.keys = (@ \cup {"hashed_pin"}) \ {"pin"},
                                 !.hashed_pin = hash_password(r.pin.secret, salt),
                                 !.pin = NoText]
                  ELSE r
    IN  [hashed EXCEPT !.keys = @ \cup SecurityKeys]

\* load_data(): the records returned and the file afterwards; salts[u] is the
\* salt bcrypt.gensalt draws when the call hashes a secret for account u
load_data(file, salts) ==
    IF file # None
    THEN LET data == [u \in DOMAIN file[1] |->
                         migrate_record(file[1][u], salts[u])]
         IN  [data |-> data, disk |-> Some(data)]
    ELSE [data |-> DefaultData(salts[U1], salts[U2]), disk |-> None]

\* load_data() called twice, nothing written in between but what the first
\* call wrote; one pair of calls in each behaviour
call_load_data(file, salts1, salts2) ==
    /\ call = NoCall
    /\ LET first == load_data(file, salts1)
           second == load_data(first.disk, salts2)
       IN  call' = [fn |-> "load_data", file |-> file, first |-> first.data,
                    second |-> second.data, disk |-> second.disk]
    /\ UNCHANGED <<now, appVars, last>>

NextLoad ==
    \E file \in Files, salts1 \in [{U1, U2} -> Salts],
       salts2 \in [{U1, U2} -> Salts] :
        call_load_data(file, salts1, salts2)

SpecLoad == Init /\ [][NextLoad]_vars

----------------------------------------------------------------------------
(* Properties *)

\* the attempts of ts that are less than a lockout window old at time t
InWindow(ts, t) == SelectSeq(ts, LAMBDA a : t - a < Minutes(LOCKOUT_MINUTES))

\* s is exactly n digits
WellFormed(s, n) == Len(s) = n /\ \A i \in 1..Len(s) : s[i] \in Digits

\* the submission passes format validation and the identifier is not locked
Admitted(uid, pin) ==
    /\ WellFormed(uid, 10)
    /\ WellFormed(pin, 4)
    /\ Len(InWindow(attempts[uid], now)) < MAX_LOGIN_ATTEMPTS

\* the PIN is the one the identifier's record was hashed from
PinMatches(uid, pin) ==
    /\ uid \in DOMAIN db
    /\ db[uid].hashed_pin # None
    /\ db[uid].hashed_pin[1].secret = pin

\* C1: a call of is_locked_out on an identifier that holds max_attempts or
\* more attempts recorded less than lockout_minutes ago returns locked=true;
\* a call made when every attempt held is lockout_minutes old or older (no
\* reset, no new attempt since) returns locked=false.
C1_LockedThenUnlocked ==
    [][\A i \in RLIdentifiers :
          call_is_locked_out(i) =>
              /\ Len(InWindow(attempts[i], now)) >= MAX_LOGIN_ATTEMPTS
                    => call'.locked
              /\ (\A k \in 1..Len(attempts[i]) :
                      now - attempts[i][k] >= Minutes(LOCKOUT_MINUTES))
                    => ~call'.locked]_vars

\* is_locked_out has just returned locked=false after pruning a full set of
\* max_attempts attempts whose window elapsed
C1_Witness ==
    /\ call.fn = "is_locked_out"
    /\ ~call.locked
    /\ call.dropped >= MAX_LOGIN_ATTEMPTS

\* C2: a login submission for an identifier the rate limiter reports locked
\* is rejected without credential verification, whatever the PIN: the visitor
\* stays unauthenticated, no session is created, the attempts held and every
\* stored failed-attempt counter are unchanged.
C2_LockedBlocksVerification ==
    [][\A uid \in UidInputs, pin \in PinInputs :
          (/\ login_screen(uid, pin)
           /\ WellFormed(uid, 10) /\ WellFormed(pin, 4)
           /\ Len(InWindow(attempts[uid], now)) >= MAX_LOGIN_ATTEMPTS)
          => /\ last'.kind = "login_locked"
             /\ ~last'.verified
             /\ ~authenticated'
             /\ session_data' = None
             /\ user_id' = None
             /\ attempts' = attempts
             /\ db' = db
             /\ disk' = disk]_vars

\* a locked submission was just rejected while the stored account is still
\* locked and its right PIN is known
C2_Witness ==
    /\ last.kind = "login_locked"
    /\ Len(InWindow(attempts[U1], now)) >= MAX_LOGIN_ATTEMPTS
    /\ PinMatches(U1, Pin0000)
    /\ ~authenticated

\* C3: after a successful login for u (format valid, not locked, PIN matches)
\* the rate limiter holds no attempts for u, session_data is a session created
\* now and owned by u, authenticated is true, user_id is u, the record's
\* failed_login_attempts is 0 and its last_login is set, all_chats is the
\* record's saved chat list and chat_history is empty; the store is saved.
C3_SuccessfulLogin ==
    [][\A uid \in UidInputs, pin \in PinInputs :
          (/\ login_screen(uid, pin)
           /\ Admitted(uid, pin)
           /\ PinMatches(uid, pin))
          => /\ attempts'[uid] = <<>>
             /\ session_data' # None
             /\ session_data'[1].user_id = uid
             /\ session_data'[1].created_at = now
             /\ session_data'[1].last_activity = Some(now)
             /\ session_data'[1].token \in Tokens
             /\ authenticated'
             /\ user_id' = Some(uid)
             /\ db'[uid].failed_login_attempts = 0
             /\ db'[uid].last_login = Some(now)
             /\ all_chats' = db'[uid].chats
             /\ chat_history' = <<>>
             /\ current_chat_id' = None
             /\ disk' = Some(db')]_vars

\* a login has just succeeded for an account that has a saved conversation
C3_Witness ==
    /\ last.kind = "login_success"
    /\ authenticated
    /\ user_id = Some(U1)
    /\ all_chats # <<>>
    /\ now > 0

\* C4: a submission that is admitted and whose credentials do not verify
\* records exactly one attempt (now) for the identifier, increments the
\* failed-attempt counter of the identifier's record (when there is one), and
\* shows max_attempts minus the attempts held as the remaining count, or that
\* the account will be locked once the attempts held reach max_attempts.
C4_FailedLogin ==
    [][\A uid \in UidInputs, pin \in PinInputs :
          (/\ login_screen(uid, pin)
           /\ Admitted(uid, pin)
           /\ ~PinMatches(uid, pin))
          => /\ attempts'[uid] = Append(InWindow(attempts[uid], now), now)
             /\ \A other \in DOMAIN attempts \ {uid} :
                    attempts'[other] = attempts[other]
             /\ uid \in DOMAIN db =>
                    /\ db'[uid].failed_login_attempts
                          = db[uid].failed_login_attempts + 1
                    /\ disk' = Some(db')
             /\ last'.kind = "login_failure"
             /\ last'.msg =
                    IF Len(attempts'[uid]) >= MAX_LOGIN_ATTEMPTS
                    THEN Msg("Invalid credentials. Account will be locked.")
                    ELSE MsgN("Invalid credentials. {} attempts remaining.",
                              MAX_LOGIN_ATTEMPTS - Len(attempts'[uid]))
             /\ ~authenticated']_vars

\* the failure that fills the window has just been reported, after an
\* earlier attempt of the account had gone stale
C4_Witness ==
    /\ last.kind = "login_failure"
    /\ last.msg = Msg("Invalid credentials. Account will be locked.")
    /\ Len(attempts[U1]) = MAX_LOGIN_ATTEMPTS
    /\ db[U1].failed_login_attempts > MAX_LOGIN_ATTEMPTS

\* C5: whenever the stored identifier and the unknown identifier have the
\* same rate-limiter history, a format-valid submission with a PIN that is
\* wrong for the stored account shows the same outcome for both identifiers.
C5_SameOutcomeForUnknown ==
    attempts[U1] = attempts[UX] =>
        \A pin \in {Pin1111}, other \in {Pin0000, Pin1111} :
            LET known == login_submit(attempts, db, U1, pin, now).shown
                unknown == login_submit(attempts, db, UX, other, now).shown
            IN  /\ known.kind = unknown.kind
                /\ known.msg = unknown.msg

\* both identifiers hold the same four attempts: the next failure of either
\* is the one that reports the lock
C5_Witness ==
    /\ attempts[U1] = attempts[UX]
    /\ Len(attempts[U1]) = MAX_LOGIN_ATTEMPTS - 1
    /\ last.kind = "login_failure"

\* C6: a login submission whose identifier or PIN fails format validation
\* changes nothing: rate limiter, store, file, session and chat state stay as
\* they are, and only the validation error is shown.
C6_InvalidFormatNoChange ==
    [][\A uid \in UidInputs, pin \in PinInputs :
          (/\ login_screen(uid, pin)
           /\ \/ validate_account_number(uid) # NoError
              \/ validate_pin(pin) # NoError)
          => /\ UNCHANGED appVars
             /\ last'.kind = "login_invalid"]_vars

\* a malformed submission was just rejected while the rate limiter holds
\* attempts and the store has been saved
C6_Witness ==
    /\ last.kind = "login_invalid"
    /\ attempts[U1] # <<>>
    /\ disk # None

\* C7: is_session_valid returns false for an absent session and for one
\* without last_activity, and otherwise returns true exactly when
\* now - last_activity is strictly less than the timeout.
C7_SessionValidity ==
    call.fn = "is_session_valid" =>
        call.ret =
            IF call.session = None THEN FALSE
            ELSE IF call.session[1].last_activity = None THEN FALSE
            ELSE now - call.session[1].last_activity[1]
                     < Minutes(SESSION_TIMEOUT_MINUTES)

\* a session that has no last_activity was just reported invalid
C7_Witness ==
    /\ call.fn = "is_session_valid"
    /\ call.session # None
    /\ call.session[1].last_activity = None
    /\ ~call.ret

\* C8 as stated: with a last_activity, false when it is more than the
\* timeout in the past and true in every other case
C8_Original ==
    (/\ call.fn = "is_session_valid"
     /\ call.session # None
     /\ call.session[1].last_activity # None)
    => call.ret = ~(now - call.session[1].last_activity[1]
                        > Minutes(SESSION_TIMEOUT_MINUTES))

\* C8, amended: for a session that has a last_activity, is_session_valid
\* returns false when last_activity is timeout_minutes or more in the past
\* (exactly timeout_minutes included) and true when it is less.
C8_ExpiredAtTimeout ==
    (/\ call.fn = "is_session_valid"
     /\ call.session # None
     /\ call.session[1].last_activity # None)
    => LET elapsed == now - call.session[1].last_activity[1]
       IN  /\ elapsed >= Minutes(SESSION_TIMEOUT_MINUTES) => ~call.ret
           /\ elapsed < Minutes(SESSION_TIMEOUT_MINUTES) => call.ret

\* a session whose last_activity is exactly the timeout in the past was just
\* reported invalid
C8_Witness ==
    /\ call.fn = "is_session_valid"
    /\ call.session # None
    /\ call.session[1].last_activity
           = Some(now - Minutes(SESSION_TIMEOUT_MINUTES))
    /\ ~call.ret

\* C9: a dashboard request made when the session is absent or its
\* last_activity is the timeout or more in the past processes nothing (no
\* transfer, no chat, the store and the file untouched) and clears
\* authenticated, user_id and session_data.
C9_ExpiredSessionProcessesNothing ==
    [][\A req \in TransferRequests :
          (/\ dashboard_screen(req)
           /\ \/ session_data = None
              \/ session_data[1].last_activity = None
              \/ now - session_data[1].last_activity[1]
                     >= Minutes(SESSION_TIMEOUT_MINUTES))
          => /\ db' = db
             /\ disk' = disk
             /\ chat_history' = chat_history
             /\ all_chats' = all_chats
             /\ attempts' = attempts
             /\ ~authenticated'
             /\ user_id' = None
             /\ session_data' = None
             /\ last'.kind = "expired"]_vars

\* an expired session was just turned away after an earlier transfer
C9_Witness ==
    /\ last.kind = "expired"
    /\ ~authenticated
    /\ db[U1].balance < DefaultData("", "")[U1].balance

\* C10: an accepted transfer of amount to recipient lowers the balance by
\* amount, puts one new transaction (-amount, "Transfer", "Debit", described
\* with the sanitized recipient) in front of the unchanged earlier ones,
\* appends the new balance to the unchanged history, leaves the other
\* records alone and saves the store.
C10_AcceptedTransfer ==
    [][\A r \in RecipientInputs, a \in AmountInputs :
          (/\ dashboard_screen(Request("transfer", r, a))
           /\ last'.kind = "transfer_ok")
          => LET u == user_id[1]
                 old == db[u]
                 new == db'[u]
             IN  /\ new.balance = old.balance - a
                 /\ Len(new.transactions) = Len(old.transactions) + 1
                 /\ Tail(new.transactions) = old.transactions
                 /\ Head(new.transactions).amt = -a
                 /\ Head(new.transactions).cat = "Transfer"
                 /\ Head(new.transactions).type = "Debit"
                 /\ Head(new.transactions).desc
                        = <<"Transfer to ">> \o sanitize_text(r)
                 /\ \A i \in 2..Len(Head(new.transactions).desc) :
                        Head(new.transactions).desc[i] \notin MarkupChars
                 /\ new.history = Append(old.history, new.balance)
                 /\ \A v \in DOMAIN db \ {u} : db'[v] = db[v]
                 /\ [new EXCEPT !.balance = old.balance,
                                !.transactions = old.transactions,
                                !.history = old.history] = old
                 /\ disk' = Some(db')]_vars

\* a second transfer to a recipient typed with markup has just been accepted
C10_Witness ==
    /\ last.kind = "transfer_ok"
    /\ last.msg.args = <<"<", "A", ">", " ">>
    /\ Len(db[U1].transactions)
           = Len(DefaultData("", "")[U1].transactions) + 2
    /\ db[U1].transactions[1].desc = <<"Transfer to ", "A">>

\* C11: every run of the transfer form for the logged-in user, whether
\* process_transfer returns or an exception leaves it, applies the balance
\* debit, the new transaction, the history entry and the saved copy of them
\* all together or not at all.
C11_TransferAtomic ==
    [][\A r \in RecipientInputs, a \in AmountInputs :
          (\/ dashboard_screen(Request("transfer", r, a))
           \/ \E file \in FailedSaveFiles(disk) :
                  dashboard_transfer_save_raises(r, a, file))
          /\ user_id # None /\ user_id' # None
          => LET u == user_id[1]
                 debited == db'[u].balance # db[u].balance
                 added == db'[u].transactions # db[u].transactions
                 appended == db'[u].history # db[u].history
                 persisted == disk' # disk /\ disk' = Some(db')
             IN  \/ debited /\ added /\ appended /\ persisted
                 \/ ~debited /\ ~added /\ ~appended /\ disk' = disk]_vars

\* the store in memory holds a transfer that the file does not
C11_Witness ==
    /\ last.kind = "exception"
    /\ disk # Some(db)
    /\ db[U1].balance < DefaultData("", "")[U1].balance

\* text is empty once its markup characters and surrounding blanks are removed
BlankWhenClean(text) ==
    \A i \in 1..Len(text) : text[i] \in MarkupChars \cup {" "}

\* C12: a call of process_transfer whose amount is below Rs. 1.00 or above
\* Rs. 50,000.00, whose recipient is empty once sanitized, or whose amount
\* exceeds the balance returns failure, leaves the store (balance,
\* transactions, history) as it was and writes nothing to the file.
C12_RejectedTransferNoChange ==
    [][\A r \in RecipientInputs, a \in CallAmounts :
          (/\ call_process_transfer(r, a)
           /\ \/ a < 100
              \/ a > 5000000
              \/ BlankWhenClean(r)
              \/ a > db[user_id[1]].balance)
          => /\ ~call'.success
             /\ db' = db
             /\ disk' = disk]_vars

\* a transfer of more than the balance was just refused after an accepted one
C12_Witness ==
    /\ call.fn = "process_transfer"
    /\ ~call.success
    /\ call.message = Msg("Insufficient funds.")
    /\ user_id = Some(U1)
    /\ db[U1].balance < DefaultData("", "")[U1].balance

\* C13: with a recipient that is not empty once sanitized and an amount the
\* balance covers, process_transfer succeeds exactly when the amount is from
\* Rs. 1.00 to Rs. 50,000.00, both included; below Rs. 1.00 it answers with
\* the at-least message and above Rs. 50,000.00 with the cannot-exceed message.
C13_AmountRange ==
    [][\A r \in RecipientInputs, a \in CallAmounts :
          (/\ call_process_transfer(r, a)
           /\ ~BlankWhenClean(r)
           /\ a <= db[user_id[1]].balance)
          => /\ call'.success <=> (100 <= a /\ a <= 5000000)
             /\ a < 100 =>
                   call'.message = MsgN("Amount must be at least Rs. {}", 100)
             /\ a > 5000000 =>
                   call'.message = MsgN("Amount cannot exceed Rs. {}", 5000000)]_vars

\* Rs. 50,000.00 exactly was just accepted
C13_Witness ==
    /\ call.fn = "process_transfer"
    /\ call.amount = 5000000
    /\ call.success

\* the sum of the amounts of the transactions txns
RECURSIVE SumAmt(_)
SumAmt(txns) == IF txns = <<>> THEN 0 ELSE Head(txns).amt + SumAmt(Tail(txns))

\* the transactions of u that were added since the default data
AddedTxns(u) ==
    SubSeq(db[u].transactions, 1,
           Len(db[u].transactions) - Len(DefaultData("", "")[u].transactions))

HoldsOneOf(groups, text) ==
    \E g \in 1..Len(groups) : \E k \in 1..Len(groups[g]) :
        \E i \in 1..Len(text) :
            /\ i + Len(groups[g][k]) - 1 <= Len(text)
            /\ SubSeq(Lower(text), i, i + Len(groups[g][k]) - 1) = groups[g][k]

C17_RejectedPromptStopsAtClassifier ==
    [][\A retry \in BOOLEAN, i \in 0..(MaxChatLen - 1), prompt \in Prompts,
          choice \in 1..Len(BalanceTemplates), reply \in Replies,
          use_ollama \in BOOLEAN :
          (/\ dashboard_assistant(retry, i, prompt, choice, reply, use_ollama)
           /\ authenticated'
           /\ ~is_banking_query(prompt).valid)
          => LET base == IF retry THEN SubSeq(chat_history, 1, i)
                         ELSE chat_history
                 n == Len(chat_history')
                 u == user_id[1]
             IN  /\ n = Len(base) + 2
                 /\ SubSeq(chat_history', 1, Len(base)) = base
                 /\ chat_history'[n - 1].role = "user"
                 /\ chat_history'[n - 1].content = Text(prompt)
                 /\ chat_history'[n].role = "assistant"
                 /\ chat_history'[n].content.text
                        \in {OFF_DOMAIN_REFUSAL, BANKING_ONLY_REFUSAL}
                 /\ chat_history'[n].content = is_banking_query(prompt).reason
                 /\ last'.kind = "rejected"
                 /\ current_chat_id' # None
                 /\ \E k \in 1..Len(all_chats') :
                        /\ all_chats'[k].id = current_chat_id'[1]
                        /\ all_chats'[k].messages = chat_history'
                 /\ db'[u].chats = all_chats'
                 /\ disk' = Some(db')
                 /\ db'[u].balance = db[u].balance
                 /\ db'[u].transactions = db[u].transactions
                 /\ db'[u].history = db[u].history]_vars

\* a retried message was just refused: the conversation holds the new
\* prompt and the off-domain refusal, and nothing else
C17_Witness ==
    /\ last.kind = "rejected"
    /\ Len(chat_history) = 2
    /\ chat_history[1].content = Text(<<"j", "o", "k", "e">>)
    /\ chat_history[2].content = Msg(OFF_DOMAIN_REFUSAL)
    /\ all_chats # <<>>
    /\ all_chats[1].messages = chat_history
    /\ all_chats[1].title = Text(<<"l", "o", "a", "n">>)

\* the texts of the answers of the handlers, in the order balance,
\* transaction history, spend analytics, profile, transfer guidance,
\* greeting, farewell, help
HandlerTexts ==
    <<{"Right now, you have {} in your {} account.",
       "Your account balance is {}. Looking good!",
       "Let me check... You currently have {} available."},
      {"Here are your last {} transactions: {}"},
      {"Spending Analysis: Total Spent {} Average {} Top {}"},
      {"Your Profile: {}"},
      {"Money Transfer Guide: Current balance {}"},
      {"{} {}! How can I help you today?"},
      {"Goodbye! Stay secure!"},
      {"I'm your AI Banking Assistant! Current balance {}"}>>

\* the handlers one of whose keywords the prompt holds
MatchingHandlers(prompt) ==
    {k \in 1..Len(HandlerWords) : HoldsOneOf(<<HandlerWords[k]>>, prompt)}

\* C18: get_bot_response answers with the earliest handler, in the order
\* balance, transaction history, spend analytics, profile, transfer
\* guidance, greeting, farewell, help, one of whose keywords the prompt
\* holds, and returns the escalation signal when none does; the assistant
\* tab lets the generative service answer only in that last case.
C18_EarliestHandlerWins ==
    call.fn = "get_bot_response" =>
        LET hits == MatchingHandlers(call.prompt)
        IN  /\ hits = {} => call.response = Msg("NEED_OLLAMA")
            /\ hits # {} =>
                  \E k \in hits :
                      /\ \A h \in hits : k <= h
                      /\ call.response.text \in HandlerTexts[k]
            /\ call.tier = "generative" => hits = {} /\ call.use_ollama
            /\ call.tier = "rule" => hits # {}

\* "pay balance": the balance handler answered though the transfer keyword
\* comes first in the prompt
C18_Witness ==
    /\ call.fn = "get_bot_response"
    /\ call.prompt = <<"p", "a", "y", " ", "b", "a", "l", "a", "n", "c", "e">>
    /\ call.response.text \in HandlerTexts[1]
    /\ call.tier = "rule"

\* C19: validate_ollama_response returns the refusal (a) for every response
\* that holds an off-topic indicator, of any length and whatever banking
\* terms it holds, and (b) for every response longer than 800 characters
\* that holds no banking term; a response of exactly 800 characters with
\* neither is returned as it is.
C19_EitherGuardRefuses ==
    call.fn = "validate_ollama_response" =>
        /\ call.head \in IndicatorHeads \cup BothHeads
              => call.ret = Msg(OFF_DOMAIN_REFUSAL)
        /\ (call.head \in PlainHeads /\ Len(call.response) > 800)
              => call.ret = Msg(OFF_DOMAIN_REFUSAL)
        /\ (call.head \in PlainHeads /\ Len(call.response) = 800)
              => call.ret = Text(call.response)

\* a response of exactly 800 characters with no indicator and no banking
\* term came back as it was
C19_Witness ==
    /\ call.fn = "validate_ollama_response"
    /\ call.head = <<"h", "e", "l", "l", "o">>
    /\ Len(call.response) = 800
    /\ call.ret = Text(call.response)

\* C20 as stated: every 900-character response that holds "balance" is
\* returned as it is
C20_Original ==
    (/\ call.fn = "validate_ollama_response"
     /\ Len(call.response) = 900
     /\ Contains(call.response, <<"b", "a", "l", "a", "n", "c", "e">>))
    => call.ret = Text(call.response)

\* C20, amended: every 900-character response that holds "balance" and no
\* off-topic indicator is returned as it is.
C20_BalanceWithoutIndicatorPasses ==
    (/\ call.fn = "validate_ollama_response"
     /\ Len(call.response) = 900
     /\ call.head \notin IndicatorHeads \cup BothHeads
     /\ Contains(call.response, <<"b", "a", "l", "a", "n", "c", "e">>))
    => call.ret = Text(call.response)

\* a 900-character response beginning with "balance" came back as it was
C20_Witness ==
    /\ call.fn = "validate_ollama_response"
    /\ call.head = <<"b", "a", "l", "a", "n", "c", "e">>
    /\ Len(call.response) = 900
    /\ call.ret = Text(call.response)

\* C21: no text of the generative service is shown to the user before
\* validate_ollama_response has run on the complete response: whenever the
\* page shows text that holds a chunk of the service, the post-filter has
\* already run in that request.
C21_FilterBeforeDisplay ==
    (/\ call.fn = "stream"
     /\ call.gen.received # <<>>
     /\ last.kind \in {"streaming", "generative"})
    => call.validated

\* the request ended with the filtered text of a two-chunk response shown:
\* the refusal, for a response that holds "import "
C21_Witness ==
    /\ call.fn = "stream"
    /\ Len(call.gen.received) = 2
    /\ call.validated
    /\ last = Shown("generative", Msg(OFF_DOMAIN_REFUSAL), FALSE)

\* C22 as stated: whenever the service fails, at the request or after some
\* chunks, call_ollama_stream raises nothing, yields exactly one chunk, the
\* fixed system-error text, then ends, and makes one request only
C22_Original ==
    (call.fn = "stream" /\ call.gen.failed) =>
        /\ ~call.gen.raised
        /\ call.gen.yielded = <<SYSTEM_ERROR>>
        /\ call.gen.ended
        /\ call.gen.posts = 1

\* C22, amended: whenever the service fails, call_ollama_stream raises
\* nothing; it has yielded the chunks read before the failure (none when the
\* request itself fails) followed by the fixed system-error text as the last
\* chunk, and then ends; one request only is made.
C22_ErrorChunkEndsStream ==
    (call.fn = "stream" /\ call.gen.failed) =>
        /\ ~call.gen.raised
        /\ call.gen.yielded = call.gen.received \o <<SYSTEM_ERROR>>
        /\ call.gen.ended
        /\ call.gen.posts = 1

\* the stream failed after one chunk was read, and the request went on to
\* its end with both chunks in the text
C22_Witness ==
    /\ call.fn = "stream"
    /\ call.gen.failed
    /\ Len(call.gen.received) = 1
    /\ call.resp_text = call.gen.received[1] \o SYSTEM_ERROR
    /\ call.validated

\* s seconds in whole minutes, rounded up
CeilMinutes(s) == (s + 59) \div 60

\* C23: whenever is_locked_out returns locked=true, the number N of its "Try
\* again in N minutes" message is the ceiling, in whole minutes, of (oldest
\* recorded attempt + lockout window - now), and N is at least 1.
C23_MinutesLeftIsCeiling ==
    (call.fn = "is_locked_out" /\ call.locked) =>
        LET remaining == attempts[call.identifier][1]
                         + Minutes(LOCKOUT_MINUTES) - now
        IN  /\ call.message =
                   MsgN("Too many failed attempts. Try again in {} minutes.",
                        CeilMinutes(remaining))
            /\ call.message.num >= 1

\* is_locked_out returned locked=true with a whole number of minutes left,
\* the full window: "Try again in 15 minutes"
C23_Witness ==
    /\ call.fn = "is_locked_out"
    /\ call.locked
    /\ attempts[call.identifier][1] = now
    /\ call.message =
           MsgN("Too many failed attempts. Try again in {} minutes.", 15)

\* C24: for every identifier and every configured max_attempts, an identifier
\* with no attempt recorded in the window (never attempted, all attempts
\* pruned, or just reset) is reported as not locked by is_locked_out.
C24_NoAttemptsNotLocked ==
    (call.fn = "is_locked_out" /\ attempts[call.identifier] = <<>>)
        => ~call.locked

\* with max_attempts = 5, is_locked_out pruned every attempt held and
\* reported not locked
C24_Witness ==
    /\ call.fn = "is_locked_out"
    /\ call.max_attempts = MAX_LOGIN_ATTEMPTS
    /\ call.dropped >= 1
    /\ attempts[call.identifier] = <<>>
    /\ ~call.locked

\* C25: load_data called twice with no write by the application in between
\* returns identical records both times, hashed secrets included, when the
\* file exists and when it does not and the default records are returned.
C25_LoadTwiceSame ==
    call.fn = "load_data" => call.first = call.second

\* a file with a plaintext pin for 1234567890 was loaded twice: the pin was
\* hashed by the first call and the second call returned the same digest
C25_Witness ==
    /\ call.fn = "load_data"
    /\ call.file # None
    /\ call.file[1][U1].pin = PlainText(Pin0000)
    /\ call.first[U1].hashed_pin.prefix = "$2b$"
    /\ call.first = call.second

\* C26: every record load_data returns has a hashed_pin digest, no pin field,
\* and the fields failed_login_attempts, last_login and account_locked_until,
\* whatever the shape of the stored record.
C26_LoadedRecordsHashed ==
    call.fn = "load_data" =>
        \A u \in DOMAIN call.first :
            IF call.file = None
            THEN /\ call.first[u].hashed_pin # None
                 /\ call.first[u].hashed_pin[1].prefix = "$2b$"
            ELSE /\ "hashed_pin" \in call.first[u].keys
                 /\ call.first[u].hashed_pin.prefix = "$2b$"
                 /\ "pin" \notin call.first[u].keys
                 /\ SecurityKeys \subseteq call.first[u].keys

\* a stored record with a plaintext pin and no security field came back with
\* a digest, without the pin and with the three fields at their defaults
C26_Witness ==
    /\ call.fn = "load_data"
    /\ call.file # None
    /\ call.file[1][U1] = StoredRecord({"pin"}, PlainText(Pin0000), NoText)
    /\ call.first[U1].keys = {"hashed_pin"} \cup SecurityKeys
    /\ call.first[U1].pin = NoText
    /\ call.first[U1].hashed_pin.secret = Pin0000
    /\ call.first[U1].failed_login_attempts = 0
    /\ call.first[U1].last_login = None

\* C27: a dashboard request of an authenticated user whose session is valid
\* sets last_activity to the time of the request and leaves user_id, token
\* and created_at as they are (a logout request then ends the session); so
\* the session stays valid while each request comes less than timeout_minutes
\* after the one before, however long ago it was created, and the first
\* request that comes timeout_minutes or more after the one before finds it
\* invalid and ends it.
C27_ActivityRefreshed ==
    [][\A req \in SessionRequests :
          (dashboard_screen(req) /\ session_data # None
           /\ session_data[1].last_activity # None)
          => LET s == session_data[1]
                 elapsed == now - s.last_activity[1]
             IN  /\ (elapsed < Minutes(SESSION_TIMEOUT_MINUTES)
                     /\ req.widget # "logout")
                       => /\ session_data'
                               = Some([s EXCEPT !.last_activity = Some(now)])
                          /\ authenticated'
                          /\ last'.kind # "expired"
                 /\ (elapsed < Minutes(SESSION_TIMEOUT_MINUTES)
                     /\ req.widget = "logout")
                       => session_data' = None /\ last'.kind = "logout"
                 /\ elapsed >= Minutes(SESSION_TIMEOUT_MINUTES)
                       => /\ session_data' = None
                          /\ ~authenticated'
                          /\ last'.kind = "expired"]_vars

\* a session created more than timeout_minutes ago has just been refreshed
\* by a request
C27_Witness ==
    /\ authenticated
    /\ session_data # None
    /\ now - session_data[1].created_at > Minutes(SESSION_TIMEOUT_MINUTES)
    /\ session_data[1].last_activity = Some(now)
    /\ last.kind \in {"dashboard", "chat"}

\* C28: in every reachable state, authenticated implies that session_data is
\* present, that its user_id is user_id and that user_id is a key of the
\* store; logout and session expiry clear authenticated, user_id and
\* session_data together, so an unauthenticated state holds neither a
\* user_id nor a session.
C28_AuthenticatedHasSession ==
    /\ authenticated =>
          /\ session_data # None
          /\ user_id # None
          /\ session_data[1].user_id = user_id[1]
          /\ user_id[1] \in DOMAIN db
    /\ ~authenticated => user_id = None /\ session_data = None
    /\ last.kind \in {"logout", "expired"} => ~authenticated

\* a login made after the clock had advanced: authenticated, with a session
\* made for the account at that time
C28_Witness ==
    /\ authenticated
    /\ user_id = Some(U1)
    /\ session_data # None
    /\ session_data[1].user_id = U1
    /\ session_data[1].created_at > 0
    /\ last.kind = "login_success"

\* the rate limiter holds at most max_attempts attempts of each identifier,
\* and an identifier that is locked is unlocked lockout_minutes after the
\* oldest attempt that is counted
AttemptsBounded ==
    \A i \in Identifiers :
        /\ Len(attempts[i]) <= MAX_LOGIN_ATTEMPTS
        /\ Len(InWindow(attempts[i], now)) >= MAX_LOGIN_ATTEMPTS =>
              ~is_locked_out(attempts, i,
                             InWindow(attempts[i], now)[1]
                                 + Minutes(LOCKOUT_MINUTES),
                             MAX_LOGIN_ATTEMPTS, LOCKOUT_MINUTES).locked

\* C29: through any sequence of login submissions the rate limiter never
\* holds more than max_attempts attempts of an identifier, the remaining
\* count reported is never negative, and a submission made while the
\* identifier is locked adds no attempt, so that the identifier is unlocked
\* no later than lockout_minutes after the oldest attempt counted.
C29_LockoutNotExtended ==
    /\ [](AttemptsBounded /\ (last.kind = "login_failure" => last.msg.num >= 0))
    /\ [][\A uid \in UidInputs, pin \in PinInputs :
             (login_screen(uid, pin) /\ last'.kind = "login_locked")
             => /\ attempts'[uid] = InWindow(attempts[uid], now)
                /\ \A i \in Identifiers \ {uid} : attempts'[i] = attempts[i]]_vars

\* a submission was just refused for the lockout while max_attempts attempts
\* made at an earlier time were held
C29_Witness ==
    /\ last.kind = "login_locked"
    /\ Len(attempts[U1]) = MAX_LOGIN_ATTEMPTS
    /\ attempts[U1][1] < now

\* C30: the balances start non-negative and, after any sequence of
\* process_transfer calls, no balance is negative; one call never lowers a
\* balance by more than Rs. 50,000.00 (and never raises it).
C30_BalanceNeverNegative ==
    /\ [](\A u \in DOMAIN db : db[u].balance >= 0)
    /\ [][\A r \in RecipientInputs, a \in CallAmounts :
             call_process_transfer(r, a) =>
                 \A u \in DOMAIN db :
                     /\ db[u].balance - db'[u].balance <= 5000000
                     /\ db'[u].balance <= db[u].balance]_vars

\* the whole balance was transferred, and the next transfer, of Rs. 1.00,
\* has just been refused
C30_Witness ==
    /\ call.fn = "process_transfer"
    /\ call.amount = 100
    /\ ~call.success
    /\ call.message = Msg("Insufficient funds.")
    /\ db[U1].balance = 0

====
